---- MODULE Spec2Model ----
(***************************************************************************)
(* A model of the media upload application: the POST /api/upload route     *)
(* handler (validation, object naming, store write, public URL), and the   *)
(* browser components that call it (AvatarUpload, MultipleFileUpload and   *)
(* the upload page that persists the uploaded-file list in local storage). *)
(*                                                                         *)
(* Strings the code inspects character by character (file names, MIME      *)
(* types, object keys, URLs) are sequences of one-character strings.       *)
(***************************************************************************)
EXTENDS Integers, Sequences, FiniteSets, TLC

\* ------------------------------------------------------------------ bounds
NumReq == 2
MaxTime == 1
MaxNameLen == 2
MaxStored == 7

Reqs == 1..NumReq

\* -------------------------------------------------------------- characters
Letters ==
  {"a","b","c","d","e","f","g","h","i","j","k","l","m","n","o","p","q","r","s",
   "t","u","v","w","x","y","z","A","B","C","D","E","F","G","H","I","J","K","L",
   "M","N","O","P","Q","R","S","T","U","V","W","X","Y","Z"}
DigitChars == <<"0","1","2","3","4","5","6","7","8","9">>
Digits == {DigitChars[i] : i \in 1..10}

\* String.prototype.startsWith
StartsWith(s, p) == Len(s) >= Len(p) /\ SubSeq(s, 1, Len(p)) = p

VideoPrefix == <<"v","i","d","e","o","/">>
ImagePrefix == <<"i","m","a","g","e","/">>

\* Number -> its decimal digits, as a template literal renders Date.now()
RECURSIVE Decimal(_)
Decimal(n) ==
  IF n < 10 THEN <<DigitChars[n + 1]>>
  ELSE Decimal(n \div 10) \o <<DigitChars[(n % 10) + 1]>>

\* ------------------------------------------------------- route.ts: helpers
MaxSizeAtLimitRejected(isVideo) ==
  IF isVideo THEN 500 * 1024 * 1024 - 1 ELSE 10 * 1024 * 1024 - 1

\* const maxSize = isVideo ? 500 * 1024 * 1024 : 10 * 1024 * 1024
MaxSize(isVideo) == IF isVideo THEN 500 * 1024 * 1024 ELSE 10 * 1024 * 1024

SizeMessage(isVideo) ==
  IF isVideo THEN "File size exceeds 500MB limit"
  ELSE "File size exceeds 10MB limit"

ValidationErrorNoSizeCheck(file) ==
  LET isVideo == StartsWith(file.type, VideoPrefix)
      isImage == StartsWith(file.type, ImagePrefix)
  IN  IF ~isImage /\ ~isVideo
      THEN "Unsupported file type. Only images and videos are allowed."
      ELSE ""

\* The type check and the size check on a File: the message of the 400
\* response, or "" when the file passes both.
ValidationError(file) ==
  LET isVideo == StartsWith(file.type, VideoPrefix)
      isImage == StartsWith(file.type, ImagePrefix)
  IN  IF ~isImage /\ ~isVideo
      THEN "Unsupported file type. Only images and videos are allowed."
      ELSE IF file.size > MaxSize(isVideo) THEN SizeMessage(isVideo)
      ELSE ""

SanitizeKeepsSpace(name) ==
  [i \in 1..Len(name) |->
     IF name[i] \in Letters \cup Digits \cup {".", "-", " "} THEN name[i] ELSE "_"]

\* file.name.replace(/[^a-zA-Z0-9.-]/g, "_")
Sanitize(name) ==
  [i \in 1..Len(name) |->
     IF name[i] \in Letters \cup Digits \cup {".", "-"} THEN name[i] ELSE "_"]

\* `${Date.now()}-${file.name.replace(...)}`
FileName(t, name) == Decimal(t) \o <<"-">> \o Sanitize(name)

ContentTypeFallbackOnly(file) ==
  IF StartsWith(file.type, VideoPrefix)
  THEN <<"v","i","d","e","o","/","m","p","4">>
  ELSE <<"i","m","a","g","e","/","j","p","e","g">>

\* file.type || (isVideo ? "video/mp4" : "image/jpeg")
ContentType(file) ==
  IF file.type # <<>> THEN file.type
  ELSE IF StartsWith(file.type, VideoPrefix)
       THEN <<"v","i","d","e","o","/","m","p","4">>
       ELSE <<"i","m","a","g","e","/","j","p","e","g">>

\* An environment variable that is not set reads as undefined.
Undefined == "undefined"
Truthy(v) == v \notin {Undefined, ""}

FileUrlAlwaysApi(e, fn) ==
  <<e.AWS_S3_API_URL, "/", e.AWS_S3_BUCKET_NAME, "/">> \o fn

\* process.env.R2_PUBLIC_URL ? `${R2_PUBLIC_URL}/${bucket}/${fileName}`
\*                           : `${AWS_S3_API_URL}/${bucket}/${fileName}`
FileUrl(e, fn) ==
  IF Truthy(e.R2_PUBLIC_URL)
  THEN <<e.R2_PUBLIC_URL, "/", e.AWS_S3_BUCKET_NAME, "/">> \o fn
  ELSE <<e.AWS_S3_API_URL, "/", e.AWS_S3_BUCKET_NAME, "/">> \o fn

\* NextResponse.json(...) bodies, as one record shape
NoResponse ==
  [status |-> 0, error |-> "", success |-> FALSE, url |-> <<>>,
   fileName |-> <<>>, type |-> ""]
JsonError(msg, code) ==
  [status |-> code, error |-> msg, success |-> FALSE, url |-> <<>>,
   fileName |-> <<>>, type |-> ""]
JsonSuccess(url, fn, isVideo) ==
  [status |-> 200, error |-> "", success |-> TRUE, url |-> url,
   fileName |-> fn, type |-> IF isVideo THEN "video" ELSE "image"]

\* the catch block of POST
CatchResponse == JsonError("Failed to upload file", 500)

NoCommand == [Key |-> <<>>, Body |-> 0, ContentType |-> <<>>]

\* -------------------------------------------------- request bodies (inputs)
\* The "file" entry of the form data: absent, a string, or a File.
NoFile == [kind |-> "none", value |-> "", name |-> <<>>, type |-> <<>>, size |-> 0]
StringField(v) ==
  [kind |-> "string", value |-> v, name |-> <<>>, type |-> <<>>, size |-> 0]
File(n, t, s) == [kind |-> "file", value |-> "", name |-> n, type |-> t, size |-> s]

ImagePng == <<"i","m","a","g","e","/","p","n","g">>
VideoMp4 == <<"v","i","d","e","o","/","m","p","4">>
TextPlain == <<"t","e","x","t","/","p","l","a","i","n">>
ImageNoSlash == <<"i","m","a","g","e">>
MimeTypes == {ImagePng, VideoMp4, TextPlain, ImageNoSlash, <<>>}

Sizes ==
  {0, 10 * 1024 * 1024, 10 * 1024 * 1024 + 1,
   500 * 1024 * 1024, 500 * 1024 * 1024 + 1}

NameChars == {"a", "Z", "7", ".", "-", "_", " "}
RECURSIVE NamesOfLen(_)
NamesOfLen(n) ==
  IF n = 0 THEN {<<>>}
  ELSE {Append(s, c) : s \in NamesOfLen(n - 1), c \in NameChars}
AllNames == UNION {NamesOfLen(n) : n \in 0..MaxNameLen}

\* Every name with one accepted kind of file, every kind of file under one
\* name, and the entries that are no File.
AllBodies ==
  {File(n, ImagePng, 10 * 1024 * 1024) : n \in AllNames}
    \cup {File(<<"a", ".">>, t, s) : t \in MimeTypes, s \in Sizes}
    \cup {NoFile, StringField(""), StringField("x")}

\* The bodies of the concurrent specification: two accepted files whose
\* names sanitize to the same text, an oversize video, a file of an
\* unsupported type, and a form without a file.
SomeBodies ==
  {File(<<"a", " ">>, ImagePng, 10 * 1024 * 1024),
   File(<<"a", "_">>, VideoMp4, 10 * 1024 * 1024 + 1),
   File(<<"a", " ">>, VideoMp4, 500 * 1024 * 1024 + 1),
   File(<<"a", " ">>, TextPlain, 0),
   NoFile}

Envs ==
  [R2_PUBLIC_URL : {Undefined, "", "https://pub.r2.dev"},
   AWS_S3_API_URL : {"https://account.r2.cloudflarestorage.com"},
   AWS_S3_BUCKET_NAME : {"media"}]

\* ------------------------------------------------------------------- state
VARIABLES
  now,        \* Date.now()
  env,        \* process.env
  pc,         \* per request: where POST is
  body,       \* per request: the "file" entry of its form data
  command,    \* per request: the PutObjectCommand it built
  sends,      \* per request: how many times s3Client.send was called
  stored,     \* per request: its send resolved, the store holds its object
  response,   \* per request: the response POST returned
  caught,     \* per request: the await whose rejection the catch block caught
  stamp,      \* per request: the value Date.now() returned to it
  store,      \* the bucket: a set of objects, one per Key
  \* the browser: one upload task per request slot
  cpc,        \* per upload: where uploadFile is
  comp,       \* per upload: the component that started it
  cfile,      \* per upload: the File handed to uploadFile
  outcome,    \* per upload: <<>>, <<"ok">> or <<the message of the thrown error>>
  batchNext,  \* per upload: the next file of the same onFilesAdded loop, or 0
  updaterLog, \* per upload: what its setUploadedFiles updater saw and returned
  \* AvatarUpload
  avatar_uploadedUrl, avatar_files, isUploading, uploadError,
  \* MultipleFileUpload and its useFileUpload hook
  mfu_uploadedFiles, mfu_updates, uploadingIds, files, errors,
  \* UploadPage
  page_uploadedFiles, page_update, localStorage, mounted, effectsPending,
  \* VideoPlayer: props, state, and the <video> element behind videoRef
  vp_url, autoPlay, thumbnail,
  isPlaying, isMuted, showThumbnail, vp_error, isReady,
  playerMounted, \* the first render and its effects have run
  el_paused,     \* the paused attribute of the element
  el_load,       \* "none" (no element), "loading", "loaded" or "failed"
  listening,     \* the listeners of lines 112-116 are on the latest element
  events,        \* the media events queued and not yet dispatched
  promises,      \* the play() promises not yet settled or not yet caught
  lastStep,      \* the last step the component took
  lastCall,      \* the call that step made on the element: <<>>, <<"play">>, <<"pause">>
  played,        \* the progress state, in 1/PlayedScale
  el_currentTime, \* the currentTime attribute of the element
  el_duration,   \* its duration attribute: NaN, a number or Infinity
  \* GalleryPage
  gallery_uploadedFiles, gallery_filter, galleryMounted,
  \* Home
  home_uploadedFiles, homeMounted,
  \* VideoViewPage
  videoId, urlParam, video, loading,
  crashed,          \* its effect threw
  videoPageMounted  \* its effect has run

serverVars ==
  <<now, env, pc, body, command, sends, stored, response, caught, stamp, store>>
taskVars == <<cpc, comp, cfile, outcome, batchNext, updaterLog>>
avatarVars == <<avatar_uploadedUrl, avatar_files, isUploading, uploadError>>
mfuVars == <<mfu_uploadedFiles, mfu_updates, uploadingIds, files, errors>>
pageVars == <<page_uploadedFiles, page_update, localStorage, mounted, effectsPending>>
uploadVars == <<taskVars, avatarVars, mfuVars, pageVars>>
playerVars ==
  <<vp_url, autoPlay, thumbnail, isPlaying, isMuted, showThumbnail, vp_error,
    isReady, playerMounted, el_paused, el_load, listening, events, promises,
    lastStep, lastCall, played, el_currentTime, el_duration>>
galleryVars == <<gallery_uploadedFiles, gallery_filter, galleryMounted>>
homeVars == <<home_uploadedFiles, homeMounted>>
videoPageVars == <<videoId, urlParam, video, loading, crashed, videoPageMounted>>
viewVars == <<playerVars, galleryVars, homeVars, videoPageVars>>
uiVars == <<uploadVars, viewVars>>
vars == <<serverVars, uiVars>>

ServerInit ==
  /\ now = 0
  /\ env \in Envs
  /\ pc = [r \in Reqs |-> "idle"]
  /\ body = [r \in Reqs |-> NoFile]
  /\ command = [r \in Reqs |-> NoCommand]
  /\ sends = [r \in Reqs |-> 0]
  /\ stored = [r \in Reqs |-> FALSE]
  /\ response = [r \in Reqs |-> NoResponse]
  /\ caught = [r \in Reqs |-> ""]
  /\ stamp = [r \in Reqs |-> 0]
  /\ store = {}


\* --------------------------------------------------------- route.ts: POST
Respond(r, resp) ==
  /\ pc' = [pc EXCEPT ![r] = "done"]
  /\ response' = [response EXCEPT ![r] = resp]
  /\ UNCHANGED caught

\* catch (error) { ... status: 500 } entered from the await named by `what`
Catch(r, what) ==
  /\ pc' = [pc EXCEPT ![r] = "done"]
  /\ response' = [response EXCEPT ![r] = CatchResponse]
  /\ caught' = [caught EXCEPT ![r] = what]

\* A request arrives and POST starts: `await request.formData()` is pending.
Receive(r, b) ==
  /\ pc[r] = "idle"
  /\ pc' = [pc EXCEPT ![r] = "formData"]
  /\ body' = [body EXCEPT ![r] = b]
  /\ UNCHANGED <<now, env, command, sends, stored, response, caught, stamp, store>>

Arrive(r) == (\E b \in SomeBodies : Receive(r, b)) /\ UNCHANGED uiVars

ArriveAlone == (\E b \in AllBodies : Receive(1, b)) /\ UNCHANGED uiVars

\* request.formData() throws: the catch block answers.
FormDataReject(r) ==
  /\ pc[r] = "formData"
  /\ Catch(r, "formData")
  /\ UNCHANGED <<now, env, body, command, sends, stored, stamp, store>>
  /\ UNCHANGED uiVars

\* lines 16-45: the three checks, up to `await file.arrayBuffer()`.
FormDataResolve(r) ==
  /\ pc[r] = "formData"
  /\ LET file == body[r] IN
       IF file.kind = "none" \/ (file.kind = "string" /\ file.value = "")
       THEN Respond(r, JsonError("No file provided", 400))
       ELSE IF file.kind = "string"
       THEN Catch(r, "type")   \* file.type is undefined: TypeError
       ELSE IF ValidationError(file) # ""
       THEN Respond(r, JsonError(ValidationError(file), 400))
       ELSE /\ pc' = [pc EXCEPT ![r] = "arrayBuffer"]
            /\ UNCHANGED <<response, caught>>
  /\ UNCHANGED <<now, env, body, command, sends, stored, stamp, store>>
  /\ UNCHANGED uiVars

\* file.arrayBuffer() throws.
ArrayBufferReject(r) ==
  /\ pc[r] = "arrayBuffer"
  /\ Catch(r, "arrayBuffer")
  /\ UNCHANGED <<now, env, body, command, sends, stored, stamp, store>>
  /\ UNCHANGED uiVars

\* lines 45-56: the key, the content type, the command, s3Client.send(command).
ArrayBufferResolve(r) ==
  /\ pc[r] = "arrayBuffer"
  /\ pc' = [pc EXCEPT ![r] = "send"]
  /\ command' = [command EXCEPT ![r] =
       [Key |-> FileName(now, body[r].name), Body |-> r,
        ContentType |-> ContentType(body[r])]]
  /\ sends' = [sends EXCEPT ![r] = @ + 1]
  /\ stamp' = [stamp EXCEPT ![r] = now]
  /\ UNCHANGED <<now, env, body, stored, response, caught, store>>
  /\ UNCHANGED uiVars

SendRejectSwallowed(r) ==
  /\ pc[r] = "send"
  /\ Respond(r, JsonSuccess(FileUrl(env, command[r].Key), command[r].Key,
                            StartsWith(body[r].type, VideoPrefix)))
  /\ UNCHANGED <<now, env, body, command, sends, stored, stamp, store>>
  /\ UNCHANGED uiVars

\* s3Client.send rejects: nothing is stored, the catch block answers.
SendReject(r) ==
  /\ pc[r] = "send"
  /\ Catch(r, "send")
  /\ UNCHANGED <<now, env, body, command, sends, stored, stamp, store>>
  /\ UNCHANGED uiVars

\* s3Client.send resolves: the bucket holds the object under its Key (an
\* object already under that Key is replaced); lines 58-68 answer.
SendResolve(r) ==
  /\ pc[r] = "send"
  /\ store' = {o \in store : o.Key # command[r].Key} \cup {command[r]}
  /\ stored' = [stored EXCEPT ![r] = TRUE]
  /\ Respond(r, JsonSuccess(FileUrl(env, command[r].Key), command[r].Key,
                            StartsWith(body[r].type, VideoPrefix)))
  /\ UNCHANGED <<now, env, body, command, sends, stamp>>
  /\ UNCHANGED uiVars

\* The clock advances.
Tick ==
  /\ now < MaxTime
  /\ now' = now + 1
  /\ UNCHANGED <<env, pc, body, command, sends, stored, response, caught, stamp,
                 store>>
  /\ UNCHANGED uiVars

Handle(r) ==
  \/ FormDataReject(r)
  \/ FormDataResolve(r)
  \/ ArrayBufferReject(r)
  \/ ArrayBufferResolve(r)
  \/ SendReject(r)
  \/ SendResolve(r)

\* ================================================================ browser
\* A value that may be null is a sequence of at most one element.
Null == <<>>

\* ------------------------------------------------------ JSON of the list
\* A JSON text is a sequence of tokens; a token is a sequence of strings.
\* JSON.stringify writes the keys of a record in the order id, url, name,
\* type, and leaves out a type that is undefined ("").
StringifyRecord(f) ==
  <<<<"{">>, <<"id">>, f.id, <<"url">>, f.url, <<"name">>, f.name>>
    \o (IF f.type # "" THEN <<<<"type">>, <<f.type>>>> ELSE <<>>)
    \o <<<<"}">>>>

RECURSIVE StringifyItems(_)
StringifyItems(list) ==
  IF list = <<>> THEN <<>>
  ELSE StringifyRecord(Head(list)) \o StringifyItems(Tail(list))

\* JSON.stringify(uploadedFiles)
Stringify(list) == <<<<"[">>>> \o StringifyItems(list) \o <<<<"]">>>>

\* JSON.parse throws on a text that is no JSON
CanParse(text) ==
  Len(text) >= 2 /\ text[1] = <<"[">> /\ text[Len(text)] = <<"]">>

RECURSIVE ParseItems(_, _)
ParseItems(text, i) ==
  IF text[i] = <<"]">> THEN <<>>
  ELSE LET typed == text[i + 7] = <<"type">>
           f == [id |-> text[i + 2], url |-> text[i + 4], name |-> text[i + 6],
                 type |-> IF typed THEN text[i + 8][1] ELSE ""]
       IN  <<f>> \o ParseItems(text, IF typed THEN i + 10 ELSE i + 8)

\* JSON.parse(stored) as UploadedFile[]
Parse(text) == ParseItems(text, 2)

PersistNeverRemoves(list) == <<Stringify(list)>>

\* The persistence effect of UploadPage: the value of local storage under
\* "r2-uploaded-files" after it ran with uploadedFiles = list.
Persist(list) == IF Len(list) > 0 THEN <<Stringify(list)>> ELSE Null

\* ----------------------------------------------------------- upload tasks
\* fileWithPreview.id, made by the hook: unique per added file
IdOf(u) == <<"f">> \o Decimal(u)

\* The files the user picks in the browser.
UIFiles ==
  {File(<<"a", " ">>, ImagePng, 1024),
   File(<<"b">>, VideoMp4, 10 * 1024 * 1024 + 1),
   File(<<"c">>, ImagePng, 10 * 1024 * 1024 + 1)}

NoLog == [ran |-> FALSE, prev |-> <<>>, updated |-> <<>>, notified |-> <<>>]

\* what a record stored by an earlier visit looks like
StoredFile ==
  [id |-> <<"s">>, url |-> <<"https://pub.r2.dev", "/", "media", "/", "0", "-", "s">>,
   name |-> <<"s">>, type |-> "video"]
Garbage == <<<<"x">>>>
StoredTexts == {Null, <<Garbage>>, <<Stringify(<<StoredFile>>)>>}

UIStart ==
  /\ cpc = [u \in Reqs |-> "idle"]
  /\ comp = [u \in Reqs |-> ""]
  /\ cfile = [u \in Reqs |-> NoFile]
  /\ outcome = [u \in Reqs |-> <<>>]
  /\ batchNext = [u \in Reqs |-> 0]
  /\ updaterLog = [u \in Reqs |-> NoLog]
  /\ avatar_uploadedUrl = Null
  /\ avatar_files = <<>>
  /\ isUploading = FALSE
  /\ uploadError = Null
  /\ mfu_uploadedFiles = <<>>
  /\ mfu_updates = <<>>
  /\ uploadingIds = {}
  /\ files = {}
  /\ errors = <<>>
  /\ page_uploadedFiles = <<>>
  /\ page_update = Null
  /\ mounted = FALSE
  /\ effectsPending = TRUE

UIInit ==
  /\ UIStart
  /\ localStorage \in StoredTexts

\* The lowest request slot not used yet.
IsFree(u) == cpc[u] = "idle" /\ pc[u] = "idle"
FirstFree == CHOOSE u \in Reqs : IsFree(u) /\ \A v \in Reqs : IsFree(v) => u <= v

\* response.ok
Ok(resp) == resp.status >= 200 /\ resp.status <= 299

\* throw new Error(error.error || "Upload failed")
ThrownMessage(resp) == IF resp.error # "" THEN resp.error ELSE "Upload failed"

\* multiple_files.tsx lines 87-92: the record of an uploaded file
UploadedFileOf(fileId, file, data) ==
  [id |-> fileId, url |-> data.url, name |-> file.name,
   type |-> IF data.type # "" THEN data.type
            ELSE IF StartsWith(file.type, VideoPrefix) THEN "video" ELSE "image"]

\* ------------------------------------------------- React: queued updates
\* A queued setUploadedFiles of MultipleFileUpload: a value (the re-sync
\* from initialFiles) or an updater (uploadFile's append, handleRemove's
\* filter). React runs the queue in order when it renders the component.
SetUpdate(list) == [kind |-> "set", list |-> list, rec |-> StoredFile, id |-> <<>>, by |-> 0]
AppendUpdate(u, rec) == [kind |-> "append", list |-> <<>>, rec |-> rec, id |-> <<>>, by |-> u]
RemoveUpdate(id) == [kind |-> "remove", list |-> <<>>, rec |-> StoredFile, id |-> id, by |-> 0]

\* prev.filter((f) => f.id !== fileId)
RECURSIVE Without(_, _)
Without(list, id) ==
  IF list = <<>> THEN <<>>
  ELSE IF Head(list).id = id THEN Without(Tail(list), id)
  ELSE <<Head(list)>> \o Without(Tail(list), id)

ApplyUpdatePrepends(prev, up) ==
  IF up.kind = "set" THEN [list |-> up.list, call |-> Null]
  ELSE IF up.kind = "append"
  THEN [list |-> <<up.rec>> \o prev, call |-> <<<<up.rec>> \o prev>>]
  ELSE [list |-> Without(prev, up.id), call |-> <<Without(prev, up.id)>>]

\* One queued update applied to prev: the new list, and the list handed to
\* onUploadComplete when the updater calls it.
ApplyUpdate(prev, up) ==
  IF up.kind = "set" THEN [list |-> up.list, call |-> Null]
  ELSE IF up.kind = "append"
  THEN [list |-> Append(prev, up.rec), call |-> <<Append(prev, up.rec)>>]
  ELSE [list |-> Without(prev, up.id), call |-> <<Without(prev, up.id)>>]

\* The first k queued updates applied in order; call is the argument of the
\* last onUploadComplete call among them.
RECURSIVE RunUpdates(_, _, _)
RunUpdates(prev, q, k) ==
  IF k = 0 THEN [list |-> prev, call |-> Null]
  ELSE LET before == RunUpdates(prev, q, k - 1)
           r == ApplyUpdate(before.list, q[k])
       IN  [list |-> r.list, call |-> IF r.call # Null THEN r.call ELSE before.call]

\* ----------------------------------------------------------- AvatarUpload
\* The user picks an image: onFilesAdded calls uploadFile, which sets
\* isUploading, clears uploadError and issues the fetch.
AvatarAddFile(f) ==
  /\ mounted
  /\ \E u \in Reqs : IsFree(u)
  /\ ~isUploading
  /\ StartsWith(f.type, ImagePrefix)
  /\ LET u == FirstFree IN
       /\ cpc' = [cpc EXCEPT ![u] = "fetch"]
       /\ comp' = [comp EXCEPT ![u] = "avatar"]
       /\ cfile' = [cfile EXCEPT ![u] = f]
       /\ avatar_files' = <<IdOf(u)>>
  /\ isUploading' = TRUE
  /\ uploadError' = Null
  /\ UNCHANGED <<outcome, batchNext, updaterLog, avatar_uploadedUrl>>
  /\ UNCHANGED <<serverVars, viewVars, mfuVars, pageVars>>

\* handleRemove of AvatarUpload, behind the button shown when there is a
\* preview and no upload is running.
AvatarRemove ==
  /\ mounted
  /\ (avatar_files # <<>> \/ avatar_uploadedUrl # Null)
  /\ ~isUploading
  /\ avatar_files' = <<>>
  /\ avatar_uploadedUrl' = Null
  /\ uploadError' = Null
  /\ UNCHANGED <<isUploading, taskVars, serverVars, viewVars, mfuVars, pageVars>>

\* uploadFile of AvatarUpload after the fetch: data.url on success, the
\* catch block on failure, the finally block.
AvatarFinish(u, result, data) ==
  /\ cpc' = [cpc EXCEPT ![u] = "done"]
  /\ outcome' = [outcome EXCEPT ![u] = result]
  /\ IF result = <<"ok">>
     THEN avatar_uploadedUrl' = <<data.url>> /\ UNCHANGED uploadError
     ELSE uploadError' = result /\ UNCHANGED avatar_uploadedUrl
  /\ isUploading' = FALSE
  /\ UNCHANGED <<comp, cfile, batchNext, updaterLog, avatar_files>>
  /\ UNCHANGED <<mfuVars, pageVars>>

\* ----------------------------------------------------- MultipleFileUpload
\* The hook accepts n picked files, clears its errors, adds them to files
\* and calls onFilesAdded: the loop starts uploadFile for the first one.
MfuAddFiles(n, pick) ==
  /\ mounted
  /\ \E u \in Reqs : IsFree(u)
  /\ LET first == FirstFree
         batch == first..(first + n - 1)
     IN  /\ batch \subseteq Reqs
         /\ cpc' = [u \in Reqs |->
              IF u = first THEN "fetch" ELSE IF u \in batch THEN "queued" ELSE cpc[u]]
         /\ comp' = [u \in Reqs |-> IF u \in batch THEN "multi" ELSE comp[u]]
         /\ cfile' = [u \in Reqs |-> IF u \in batch THEN pick[u - first + 1] ELSE cfile[u]]
         /\ batchNext' = [u \in Reqs |->
              IF u \in batch /\ u + 1 \in batch THEN u + 1 ELSE batchNext[u]]
         /\ files' = files \cup {IdOf(u) : u \in batch}
         /\ uploadingIds' = uploadingIds \cup {IdOf(first)}
  /\ errors' = <<>>
  /\ UNCHANGED <<outcome, updaterLog, mfu_uploadedFiles, mfu_updates>>
  /\ UNCHANGED <<serverVars, viewVars, avatarVars, pageVars>>

\* The hook refuses a picked file (too large, wrong type, too many): it
\* records the message in errors and does not call onFilesAdded.
MfuHookRejects ==
  /\ mounted
  /\ errors' = <<"File exceeds the maximum size of 500MB.">>
  /\ UNCHANGED <<mfu_uploadedFiles, mfu_updates, uploadingIds, files>>
  /\ UNCHANGED <<serverVars, viewVars, taskVars, avatarVars, pageVars>>

\* handleRemove of MultipleFileUpload, behind a button that is disabled
\* while the file is uploading.
MfuRemove(id) ==
  /\ mounted
  /\ id \in files
  /\ id \notin uploadingIds
  /\ files' = files \ {id}
  /\ mfu_updates' = Append(mfu_updates, RemoveUpdate(id))
  /\ UNCHANGED <<mfu_uploadedFiles, uploadingIds, errors>>
  /\ UNCHANGED <<serverVars, viewVars, taskVars, avatarVars, pageVars>>

MfuFinishNoFinally(u, result, data) ==
  LET v == batchNext[u] IN
  /\ cpc' = [cpc EXCEPT ![u] = "done", ![IF v = 0 THEN u ELSE v] =
               IF v = 0 THEN "done" ELSE "fetch"]
  /\ outcome' = [outcome EXCEPT ![u] = result]
  /\ mfu_updates' =
       IF result = <<"ok">>
       THEN Append(mfu_updates, AppendUpdate(u, UploadedFileOf(IdOf(u), cfile[u], data)))
       ELSE mfu_updates
  /\ uploadingIds' =
       (uploadingIds \ (IF result = <<"ok">> THEN {IdOf(u)} ELSE {}))
         \cup (IF v = 0 THEN {} ELSE {IdOf(v)})
  /\ UNCHANGED <<comp, cfile, batchNext, updaterLog>>
  /\ UNCHANGED <<mfu_uploadedFiles, files, errors>>
  /\ UNCHANGED <<avatarVars, pageVars>>

MfuFinishStopsBatch(u, result, data) ==
  LET v == IF result = <<"ok">> THEN batchNext[u] ELSE 0 IN
  /\ cpc' = [cpc EXCEPT ![u] = "done", ![IF v = 0 THEN u ELSE v] =
               IF v = 0 THEN "done" ELSE "fetch"]
  /\ outcome' = [outcome EXCEPT ![u] = result]
  /\ mfu_updates' =
       IF result = <<"ok">>
       THEN Append(mfu_updates, AppendUpdate(u, UploadedFileOf(IdOf(u), cfile[u], data)))
       ELSE mfu_updates
  /\ uploadingIds' =
       (uploadingIds \ {IdOf(u)}) \cup (IF v = 0 THEN {} ELSE {IdOf(v)})
  /\ UNCHANGED <<comp, cfile, batchNext, updaterLog>>
  /\ UNCHANGED <<mfu_uploadedFiles, files, errors>>
  /\ UNCHANGED <<avatarVars, pageVars>>

MfuFinishRecordsFailure(u, result, data) ==
  LET v == batchNext[u] IN
  /\ cpc' = [cpc EXCEPT ![u] = "done", ![IF v = 0 THEN u ELSE v] =
               IF v = 0 THEN "done" ELSE "fetch"]
  /\ outcome' = [outcome EXCEPT ![u] = result]
  /\ mfu_updates' =
       Append(mfu_updates, AppendUpdate(u, UploadedFileOf(IdOf(u), cfile[u], data)))
  /\ uploadingIds' =
       (uploadingIds \ {IdOf(u)}) \cup (IF v = 0 THEN {} ELSE {IdOf(v)})
  /\ UNCHANGED <<comp, cfile, batchNext, updaterLog>>
  /\ UNCHANGED <<mfu_uploadedFiles, files, errors>>
  /\ UNCHANGED <<avatarVars, pageVars>>

\* uploadFile of MultipleFileUpload after the fetch: the record is queued for
\* the list on success, the catch block logs on failure, the finally block
\* takes the id out of uploadingIds; then the onFilesAdded loop goes on to
\* the next file of the batch.
MfuFinish(u, result, data) ==
  LET v == batchNext[u] IN
  /\ cpc' = [cpc EXCEPT ![u] = "done", ![IF v = 0 THEN u ELSE v] =
               IF v = 0 THEN "done" ELSE "fetch"]
  /\ outcome' = [outcome EXCEPT ![u] = result]
  /\ mfu_updates' =
       IF result = <<"ok">>
       THEN Append(mfu_updates, AppendUpdate(u, UploadedFileOf(IdOf(u), cfile[u], data)))
       ELSE mfu_updates
  /\ uploadingIds' =
       (uploadingIds \ {IdOf(u)}) \cup (IF v = 0 THEN {} ELSE {IdOf(v)})
  /\ UNCHANGED <<comp, cfile, batchNext, updaterLog>>
  /\ UNCHANGED <<mfu_uploadedFiles, files, errors>>
  /\ UNCHANGED <<avatarVars, pageVars>>

\* ------------------------------------------------------------- the fetch
Finish(u, result, data) ==
  IF comp[u] = "avatar" THEN AvatarFinish(u, result, data)
  ELSE MfuFinish(u, result, data)

\* The request of an upload reaches the server.
Deliver(u) ==
  /\ cpc[u] = "fetch"
  /\ Receive(u, cfile[u])
  /\ UNCHANGED uiVars

\* fetch rejects: the request never reached the server.
FetchReject(u) ==
  /\ cpc[u] = "fetch"
  /\ pc[u] = "idle"
  /\ Finish(u, <<"Failed to fetch">>, NoResponse)
  /\ UNCHANGED <<serverVars, viewVars>>

\* fetch resolves with the response of POST, and response.json() with its
\* body.
FetchResolve(u) ==
  /\ cpc[u] = "fetch"
  /\ pc[u] = "done"
  /\ IF Ok(response[u])
     THEN Finish(u, <<"ok">>, response[u])
     ELSE Finish(u, <<ThrownMessage(response[u])>>, response[u])
  /\ UNCHANGED <<serverVars, viewVars>>

\* ----------------------------------------------------- rendering, effects
\* React renders: UploadPage takes its queued state, MultipleFileUpload runs
\* its queued updates in order, and the updaters' onUploadComplete calls
\* queue the next state of UploadPage. Effects of the last render are
\* flushed before a new one starts.
Render ==
  /\ mounted
  /\ ~effectsPending
  /\ (mfu_updates # <<>> \/ page_update # Null)
  /\ LET n == Len(mfu_updates)
         res == RunUpdates(mfu_uploadedFiles, mfu_updates, n)
     IN  /\ mfu_uploadedFiles' = res.list
         /\ page_update' = res.call
         /\ updaterLog' = [u \in Reqs |->
              IF \E k \in 1..n : mfu_updates[k].kind = "append" /\ mfu_updates[k].by = u
              THEN LET k == CHOOSE k \in 1..n :
                              mfu_updates[k].kind = "append" /\ mfu_updates[k].by = u
                       before == RunUpdates(mfu_uploadedFiles, mfu_updates, k - 1).list
                       r == ApplyUpdate(before, mfu_updates[k])
                   IN  [ran |-> TRUE, prev |-> before, updated |-> r.list,
                        notified |-> r.call]
              ELSE updaterLog[u]]
  /\ mfu_updates' = <<>>
  /\ page_uploadedFiles' = IF page_update # Null THEN page_update[1] ELSE page_uploadedFiles
  /\ effectsPending' = (page_update # Null)
  /\ UNCHANGED <<cpc, comp, cfile, outcome, batchNext, uploadingIds, files, errors,
                 localStorage, mounted>>
  /\ UNCHANGED <<serverVars, viewVars, avatarVars>>

\* The effects after the first render: UploadPage loads the stored list
\* (lines 18-28), then its persistence effect runs with the list it rendered.
\* The re-sync of MultipleFileUpload sets the array it already holds.
MountEffects ==
  /\ ~mounted
  /\ effectsPending
  /\ page_update' =
       IF localStorage # Null /\ localStorage[1] # <<>> /\ CanParse(localStorage[1])
       THEN <<Parse(localStorage[1])>>
       ELSE Null
  /\ localStorage' = Persist(page_uploadedFiles)
  /\ mounted' = TRUE
  /\ effectsPending' = FALSE
  /\ UNCHANGED <<page_uploadedFiles, mfuVars, taskVars, avatarVars, serverVars, viewVars>>

\* The effects after a render in which uploadedFiles of UploadPage changed:
\* MultipleFileUpload re-syncs from initialFiles (lines 32-34), UploadPage
\* persists the list (lines 30-36).
FlushEffects ==
  /\ mounted
  /\ effectsPending
  /\ mfu_updates' = Append(mfu_updates, SetUpdate(page_uploadedFiles))
  /\ localStorage' = Persist(page_uploadedFiles)
  /\ effectsPending' = FALSE
  /\ UNCHANGED <<page_uploadedFiles, page_update, mounted>>
  /\ UNCHANGED <<mfu_uploadedFiles, uploadingIds, files, errors>>
  /\ UNCHANGED <<taskVars, avatarVars, serverVars, viewVars>>

\* ============================================================ VideoPlayer
\* One VideoPlayer. A handler, the render it causes and the effects of that
\* render are one step; media events and promise callbacks are steps of
\* their own.
PlayerUrls == {"", "A", "B"}

\* Numbers of the media timeline: seconds, with two values that are no
\* finite number.
NaN == 0 - 1
Infinity == 1000
\* played (line 26) and the value of the range input (lines 246-252) are
\* numbers between 0 and 1, counted in 1/PlayedScale
PlayedScale == 8
\* the length of the media the element plays, when it is finite: every seek
\* value below lands on a whole second of it
MediaLength == PlayedScale \div 2
\* what the duration attribute is once the metadata is known
KnownDurations == {0, MediaLength, Infinity}
\* the values the user drags the range input to
SeekValues == {0, 2, 4, 6, 8}
\* the media events the model keeps queued at a time
MaxEvents == 4

\* currentTime / videoDuration (line 81), for videoDuration > 0
Quotient(t, d) == IF d = Infinity THEN 0 ELSE (t * PlayedScale) \div d

\* seekValue * videoRef.current.duration (line 97)
Product(v, d) ==
  IF d = NaN THEN NaN
  ELSE IF d = Infinity THEN (IF v = 0 THEN NaN ELSE Infinity)
  ELSE (v * d) \div PlayedScale

FailedToLoad == "Failed to load video. Please try opening it in a new tab."
UnableToPlay == "Unable to play video. Please try clicking play again."

\* ------------------------------------------------------ what is rendered
\* line 153: the "No video source" view
NoSourceView == vp_url = ""
\* line 161: the error view with the "Open video in new tab" link
ErrorView == vp_url # "" /\ vp_error # Null
\* line 198: the <video> element, with src = url
VideoMounted == vp_url # "" /\ vp_error = Null
\* lines 224-232: the play button on the thumbnail
ThumbnailButton == VideoMounted /\ showThumbnail /\ thumbnail
\* lines 264-274: the play/pause button of the controls bar
ControlsBar == VideoMounted /\ ~showThumbnail
\* lines 324-334: the play button shown when paused
PlayOverlay == VideoMounted /\ ~showThumbnail /\ ~isPlaying

\* ----------------------------------------------- the HTML media element
El == [paused |-> el_paused, load |-> el_load, events |-> events,
       promises |-> promises, currentTime |-> el_currentTime,
       duration |-> el_duration]

Rejected(ps) == {[by |-> p.by, rejected |-> TRUE] : p \in ps}

\* A <video> element is created and starts fetching its source.
ElNew(e) ==
  [e EXCEPT !.paused = TRUE, !.load = "loading", !.events = <<>>,
            !.currentTime = 0, !.duration = NaN]

\* The src attribute changes: the load algorithm drops the queued events,
\* pauses the element without a pause event and rejects the pending play()
\* promises.
ElLoad(e) ==
  [paused |-> TRUE, load |-> "loading", events |-> <<>>,
   promises |-> Rejected(e.promises), currentTime |-> 0, duration |-> NaN]

\* the events the listeners of lines 105-110 still handle once the element
\* is gone (handleTimeUpdate and handleLoadedMetadata need videoRef.current)
ForListeners(ev) == ev \in {"play", "pause", "error"}

\* The element is removed from the document: it is paused, its pending
\* play() promises are rejected; listeners added with addEventListener stay
\* on it.
ElRemove(e, listened) ==
  [paused |-> TRUE, load |-> "none",
   events |-> IF listened
              THEN SelectSeq(e.events, ForListeners)
                     \o (IF e.paused THEN <<>> ELSE <<"pause">>)
              ELSE <<>>,
   promises |-> Rejected(e.promises), currentTime |-> 0, duration |-> NaN]

\* the element has ended playback: the position is the end of the media
Ended(e) == e.duration = MediaLength /\ e.currentTime = e.duration

\* HTMLMediaElement.pause()
ElPause(e) ==
  IF e.paused THEN e
  ELSE [e EXCEPT !.paused = TRUE, !.events = Append(@, "pause"),
                 !.promises = Rejected(@)]

\* HTMLMediaElement.play(): rejected at once when the element is not allowed
\* to play or its source failed; otherwise the element leaves the paused
\* state (a play event is queued) and the promise stays pending.
ElPlay(e, by, allowed) ==
  IF ~allowed \/ e.load = "failed"
  THEN [e EXCEPT !.promises = @ \cup {[by |-> by, rejected |-> TRUE]}]
  ELSE [e EXCEPT !.promises = @ \cup {[by |-> by, rejected |-> FALSE]},
                 !.paused = FALSE,
                 !.events = IF e.paused THEN Append(@, "play") ELSE @,
                 !.currentTime = IF Ended(e) THEN 0 ELSE @]

\* The playback position becomes t: a timeupdate event is queued; at the end
\* of the media a playing element is paused with a pause event and its
\* pending play() promises are rejected.
ElReach(e, t) ==
  LET moved == [e EXCEPT !.currentTime = t, !.events = Append(@, "timeupdate")]
  IN  IF Ended(moved) /\ ~e.paused
      THEN [moved EXCEPT !.paused = TRUE, !.events = Append(@, "pause"),
                         !.promises = Rejected(@)]
      ELSE moved

Apply(e) ==
  /\ el_paused' = e.paused
  /\ el_load' = e.load
  /\ events' = e.events
  /\ promises' = e.promises
  /\ el_currentTime' = e.currentTime
  /\ el_duration' = e.duration

\* ---------------------------------------------------------------- state
PlayerInit ==
  /\ vp_url \in PlayerUrls
  /\ autoPlay \in BOOLEAN
  /\ thumbnail \in BOOLEAN
  /\ isPlaying = autoPlay
  /\ isMuted = autoPlay
  /\ showThumbnail = TRUE
  /\ vp_error = Null
  /\ isReady = FALSE
  /\ playerMounted = FALSE
  /\ el_paused = TRUE
  /\ el_load = "none"
  /\ listening = FALSE
  /\ events = <<>>
  /\ promises = {}
  /\ lastStep = ""
  /\ lastCall = <<>>
  /\ played = 0
  /\ el_currentTime = 0
  /\ el_duration = NaN

PlayerQuiet ==
  /\ PlayerInit
  /\ vp_url = ""
  /\ ~autoPlay
  /\ ~thumbnail

\* --------------------------------------------------------------- actions
\* The first render and its effects: lines 35-39 hide the thumbnail when
\* isPlaying, lines 41-44 clear error and isReady, lines 67-74 call play()
\* when autoPlay, lines 101-125 add the listeners.
PlayerMount ==
  /\ ~playerMounted
  /\ playerMounted' = TRUE
  /\ showThumbnail' = IF isPlaying THEN FALSE ELSE showThumbnail
  /\ vp_error' = Null
  /\ isReady' = FALSE
  /\ listening' = VideoMounted
  /\ IF VideoMounted /\ autoPlay
     THEN /\ \E allowed \in BOOLEAN : Apply(ElPlay(ElNew(El), "auto", allowed))
          /\ lastCall' = <<"play">>
     ELSE /\ Apply(IF VideoMounted THEN ElNew(El) ELSE El)
          /\ lastCall' = <<>>
  /\ lastStep' = "mount"
  /\ UNCHANGED <<vp_url, autoPlay, thumbnail, isPlaying, isMuted, played>>
  /\ UNCHANGED <<serverVars, uploadVars, galleryVars, homeVars,
                 videoPageVars>>

\* The parent passes another url. The render with the new url still has the
\* old error; its effects clear error and isReady (lines 41-44), call play()
\* when autoPlay and videoRef.current is set (lines 67-74), move the
\* listeners (lines 101-125); the render after that has no error.
ChangeUrl(u) ==
  /\ playerMounted
  /\ u # vp_url
  /\ vp_url' = u
  /\ vp_error' = Null
  /\ isReady' = FALSE
  /\ LET before == VideoMounted
         during == u # "" /\ vp_error = Null
         after == u # ""
         e1 == IF before /\ during THEN ElLoad(El)
               ELSE IF before THEN ElRemove(El, FALSE)
               ELSE IF after THEN ElNew(El)
               ELSE [El EXCEPT !.events = <<>>]
     IN  /\ listening' = during
         /\ IF during /\ autoPlay
            THEN /\ \E allowed \in BOOLEAN : Apply(ElPlay(e1, "auto", allowed))
                 /\ lastCall' = <<"play">>
            ELSE /\ Apply(e1)
                 /\ lastCall' = <<>>
  /\ lastStep' = "url"
  /\ UNCHANGED <<autoPlay, thumbnail, isPlaying, isMuted, showThumbnail,
                 playerMounted, played>>
  /\ UNCHANGED <<serverVars, uploadVars, galleryVars, homeVars,
                 videoPageVars>>

\* lines 46-58, behind each of the three play controls
handlePlayPause ==
  /\ playerMounted
  /\ ThumbnailButton \/ ControlsBar \/ PlayOverlay
  /\ IF isPlaying
     THEN Apply(ElPause(El)) /\ lastCall' = <<"pause">>
     ELSE Apply(ElPlay(El, "click", TRUE)) /\ lastCall' = <<"play">>
  /\ showThumbnail' = FALSE
  /\ lastStep' = "click"
  /\ UNCHANGED <<vp_url, autoPlay, thumbnail, isPlaying, isMuted, vp_error,
                 isReady, playerMounted, listening, played>>
  /\ UNCHANGED <<serverVars, uploadVars, galleryVars, homeVars,
                 videoPageVars>>

\* line 279: the mute button of the controls bar
ToggleMute ==
  /\ playerMounted
  /\ ControlsBar
  /\ isMuted' = ~isMuted
  /\ lastStep' = "mute"
  /\ lastCall' = <<>>
  /\ UNCHANGED <<vp_url, autoPlay, thumbnail, isPlaying, showThumbnail, vp_error,
                 isReady, playerMounted, el_paused, el_load, listening, events,
                 promises, played, el_currentTime, el_duration>>
  /\ UNCHANGED <<serverVars, uploadVars, galleryVars, homeVars,
                 videoPageVars>>

\* The element has read the metadata of its source: the duration is known.
MetadataLoaded(d) ==
  /\ VideoMounted
  /\ el_load = "loading"
  /\ el_duration = NaN
  /\ el_duration' = d
  /\ events' = Append(events, "loadedmetadata")
  /\ UNCHANGED <<vp_url, autoPlay, thumbnail, isPlaying, isMuted, showThumbnail,
                 vp_error, isReady, playerMounted, el_paused, el_load, listening,
                 promises, lastStep, lastCall, played, el_currentTime>>
  /\ UNCHANGED <<serverVars, uploadVars, galleryVars, homeVars,
                 videoPageVars>>

\* Playback advances by a second.
TimePasses ==
  /\ VideoMounted
  /\ el_load = "loaded"
  /\ ~el_paused
  /\ el_duration \in {MediaLength, Infinity}
  /\ el_currentTime < MediaLength
  /\ Len(events) + 2 <= MaxEvents
  /\ Apply(ElReach(El, el_currentTime + 1))
  /\ UNCHANGED <<vp_url, autoPlay, thumbnail, isPlaying, isMuted, showThumbnail,
                 vp_error, isReady, playerMounted, listening, lastStep, lastCall,
                 played>>
  /\ UNCHANGED <<serverVars, uploadVars, galleryVars, homeVars,
                 videoPageVars>>

\* lines 76-84: the value of played after handleTimeUpdate
handleTimeUpdate ==
  IF VideoMounted /\ el_duration # NaN /\ el_duration > 0
  THEN Quotient(el_currentTime, el_duration)
  ELSE played

SeekTimeUnguarded(v) == Product(v, el_duration)

\* lines 96-98: the currentTime of the element after handleSeekChange. The
\* assignment of a value that is no finite number throws a TypeError and
\* leaves currentTime as it was.
SeekTime(v) ==
  IF VideoMounted /\ el_duration # NaN /\ el_duration # 0
  THEN LET t == Product(v, el_duration)
       IN  IF t \in {NaN, Infinity} THEN el_currentTime ELSE t
  ELSE el_currentTime

\* lines 93-99, behind the range input of the controls overlay
handleSeekChange(v) ==
  /\ playerMounted
  /\ ControlsBar
  /\ Len(events) + 2 <= MaxEvents
  /\ played' = v
  /\ IF SeekTime(v) # el_currentTime
     THEN Apply(ElReach(El, SeekTime(v)))
     ELSE Apply(El)
  /\ lastStep' = "seek"
  /\ lastCall' = <<>>
  /\ UNCHANGED <<vp_url, autoPlay, thumbnail, isPlaying, isMuted, showThumbnail,
                 vp_error, isReady, playerMounted, listening>>
  /\ UNCHANGED <<serverVars, uploadVars, galleryVars, homeVars,
                 videoPageVars>>

\* The element has loaded the first frame of its source.
MediaLoaded ==
  /\ VideoMounted
  /\ el_load = "loading"
  /\ el_duration # NaN
  /\ el_load' = "loaded"
  /\ events' = Append(events, "loadeddata")
  /\ UNCHANGED <<vp_url, autoPlay, thumbnail, isPlaying, isMuted, showThumbnail,
                 vp_error, isReady, playerMounted, el_paused, listening, promises,
                 lastStep, lastCall, played, el_currentTime, el_duration>>
  /\ UNCHANGED <<serverVars, uploadVars, galleryVars, homeVars,
                 videoPageVars>>

\* The element fails to fetch or decode its source.
MediaError ==
  /\ VideoMounted
  /\ el_load \in {"loading", "loaded"}
  /\ el_load' = "failed"
  /\ promises' = Rejected(promises)
  /\ events' = Append(events, "error")
  /\ UNCHANGED <<vp_url, autoPlay, thumbnail, isPlaying, isMuted, showThumbnail,
                 vp_error, isReady, playerMounted, el_paused, listening,
                 lastStep, lastCall, played, el_currentTime, el_duration>>
  /\ UNCHANGED <<serverVars, uploadVars, galleryVars, homeVars,
                 videoPageVars>>

\* Playback starts: the pending play() promises resolve. No handler is
\* attached to their fulfilment.
PlayResolve ==
  /\ \E p \in promises : ~p.rejected
  /\ el_load = "loaded"
  /\ ~el_paused
  /\ promises' = {p \in promises : p.rejected}
  /\ UNCHANGED <<vp_url, autoPlay, thumbnail, isPlaying, isMuted, showThumbnail,
                 vp_error, isReady, playerMounted, el_paused, el_load, listening,
                 events, lastStep, lastCall, played, el_currentTime, el_duration>>
  /\ UNCHANGED <<serverVars, uploadVars, galleryVars, homeVars,
                 videoPageVars>>

\* The catch callback of a rejected play(): lines 51-54 set the error for a
\* click, lines 69-72 only log for the autoplay effect.
PlayCatch ==
  /\ \E p \in promises :
       /\ p.rejected
       /\ LET e == [El EXCEPT !.promises = @ \ {p}] IN
            IF p.by = "click"
            THEN /\ vp_error' = <<UnableToPlay>>
                 /\ Apply(IF VideoMounted THEN ElRemove(e, listening) ELSE e)
            ELSE /\ UNCHANGED vp_error
                 /\ Apply(e)
  /\ lastStep' = "catch"
  /\ lastCall' = <<>>
  /\ UNCHANGED <<vp_url, autoPlay, thumbnail, isPlaying, isMuted, showThumbnail,
                 isReady, playerMounted, listening, played>>
  /\ UNCHANGED <<serverVars, uploadVars, galleryVars, homeVars,
                 videoPageVars>>

handleErrorKeepsPlaying == [error |-> <<FailedToLoad>>, isPlaying |-> isPlaying]

\* handleError (lines 107-110) and onError (lines 209-212): the error and
\* isPlaying they set
handleError == [error |-> <<FailedToLoad>>, isPlaying |-> FALSE]

\* The oldest queued media event is dispatched: to handlePlay, handlePause
\* and handleError (lines 105-110) when the listeners are on the element, to
\* onError and onLoadedData (lines 205-212) when the element is rendered.
DispatchEvent ==
  /\ events # <<>>
  /\ LET ev == Head(events)
         e == [El EXCEPT !.events = Tail(events)]
     IN  IF ev = "play" /\ listening
         THEN /\ isPlaying' = TRUE
              /\ showThumbnail' = IF ~isPlaying THEN FALSE ELSE showThumbnail
              /\ Apply(e)
              /\ UNCHANGED <<vp_error, isReady>>
         ELSE IF ev = "pause" /\ listening
         THEN /\ isPlaying' = FALSE
              /\ Apply(e)
              /\ UNCHANGED <<showThumbnail, vp_error, isReady>>
         ELSE IF ev = "error" /\ (listening \/ VideoMounted)
         THEN /\ vp_error' = handleError.error
              /\ isPlaying' = handleError.isPlaying
              /\ Apply(IF VideoMounted THEN ElRemove(e, listening) ELSE e)
              /\ UNCHANGED <<showThumbnail, isReady>>
         ELSE IF ev = "loadeddata" /\ VideoMounted
         THEN /\ isReady' = TRUE
              /\ vp_error' = Null
              /\ Apply(e)
              /\ UNCHANGED <<isPlaying, showThumbnail>>
         ELSE IF ev = "loadedmetadata" /\ listening /\ VideoMounted
         THEN /\ isReady' = TRUE
              /\ Apply(e)
              /\ UNCHANGED <<isPlaying, showThumbnail, vp_error>>
         ELSE /\ Apply(e)
              /\ UNCHANGED <<isPlaying, showThumbnail, vp_error, isReady>>
  /\ played' = IF Head(events) = "timeupdate" /\ listening
               THEN handleTimeUpdate ELSE played
  /\ lastStep' = "event"
  /\ lastCall' = <<>>
  /\ UNCHANGED <<vp_url, autoPlay, thumbnail, isMuted, playerMounted, listening>>
  /\ UNCHANGED <<serverVars, uploadVars, galleryVars, homeVars,
                 videoPageVars>>

\* ====================================================== GalleryPage, Home
\* The record of the i-th upload, as MultipleFileUpload builds it and the
\* upload page stores it: the list in local storage is in upload order.
Upload(i) ==
  [id |-> IdOf(i),
   url |-> <<"https://pub.r2.dev", "/", "media", "/">> \o Decimal(i) \o <<"-", "v">>,
   name |-> <<"v">>,
   type |-> IF i % 2 = 1 THEN "video" ELSE IF i % 4 = 0 THEN "" ELSE "image"]

Uploads(n) == [i \in 1..n |-> Upload(i)]

\* a stored list in which two records have the same id
TwinList == <<Upload(1), Upload(2), [Upload(3) EXCEPT !.id = IdOf(1)]>>

\* What local storage may hold under "r2-uploaded-files" when a page opens:
\* nothing, the empty string, a text that is no JSON, or a stored list.
ViewStoredTexts ==
  {Null, <<<<>>>>, <<Garbage>>, <<Stringify(TwinList)>>}
    \cup {<<Stringify(Uploads(n))>> : n \in 0..MaxStored}

\* the load effect of GalleryPage (route.ts lines 100-110) and of Home
\* (lines 21-31): the list it sets, the initial [] when it sets none
LoadStored(ls) ==
  IF ls # Null /\ ls[1] # <<>> /\ CanParse(ls[1]) THEN Parse(ls[1]) ELSE <<>>

GalleryInit ==
  /\ gallery_uploadedFiles = <<>>
  /\ gallery_filter = "all"
  /\ galleryMounted = FALSE

HomeInit ==
  /\ home_uploadedFiles = <<>>
  /\ homeMounted = FALSE

\* route.ts lines 122-127
InFilter(file) ==
  IF gallery_filter = "image" THEN file.type # "video"
  ELSE IF gallery_filter = "video" THEN file.type = "video"
  ELSE TRUE

filteredFiles == SelectSeq(gallery_uploadedFiles, InFilter)

StorageAfterRemoveKeepsKey(updated) == <<Stringify(updated)>>

\* route.ts lines 115-119: local storage after handleRemove
StorageAfterRemove(updated) ==
  IF Len(updated) > 0 THEN <<Stringify(updated)>> ELSE Null

GalleryMount ==
  /\ ~galleryMounted
  /\ galleryMounted' = TRUE
  /\ gallery_uploadedFiles' = LoadStored(localStorage)
  /\ UNCHANGED <<gallery_filter, homeVars, playerVars, videoPageVars, serverVars,
                 uploadVars>>

\* the three filter buttons, rendered while the list is not empty
SetFilter(f) ==
  /\ galleryMounted
  /\ Len(gallery_uploadedFiles) > 0
  /\ f # gallery_filter
  /\ gallery_filter' = f
  /\ UNCHANGED <<gallery_uploadedFiles, galleryMounted, homeVars, playerVars,
                 videoPageVars, serverVars, uploadVars>>

\* handleRemove of GalleryPage (route.ts lines 112-120), behind the Remove
\* button of a file the gallery shows
GalleryRemove(id) ==
  /\ galleryMounted
  /\ \E i \in 1..Len(filteredFiles) : filteredFiles[i].id = id
  /\ LET updated == Without(gallery_uploadedFiles, id) IN
       /\ gallery_uploadedFiles' = updated
       /\ localStorage' = StorageAfterRemove(updated)
  /\ UNCHANGED <<gallery_filter, galleryMounted, homeVars, playerVars,
                 videoPageVars, serverVars>>
  /\ UNCHANGED <<taskVars, avatarVars, mfuVars, page_uploadedFiles, page_update,
                 mounted, effectsPending>>

\* the load effect of Home
HomeMount ==
  /\ ~homeMounted
  /\ homeMounted' = TRUE
  /\ home_uploadedFiles' = LoadStored(localStorage)
  /\ UNCHANGED <<galleryVars, playerVars, videoPageVars, serverVars, uploadVars>>

\* part_000 line 154: uploadedFiles.slice(0, 6), under "Recent Uploads"
RecentUploads ==
  SubSeq(home_uploadedFiles, 1,
         IF Len(home_uploadedFiles) < 6 THEN Len(home_uploadedFiles) ELSE 6)

\* ========================================================== VideoViewPage
\* Strings are sequences of characters here: the page splits them at "/",
\* decodes their escapes and searches them for substrings.
Http == <<"h","t","t","p",":","/","/">>
Https == <<"h","t","t","p","s",":","/","/">>

\* String.prototype.includes
Includes(s, t) ==
  \E i \in 0..(Len(s) - Len(t)) : SubSeq(s, i + 1, i + Len(t)) = t

\* s.split("/"), last element: what follows the last "/", all of s without one
LastSegment(s) ==
  IF \E i \in 1..Len(s) : s[i] = "/"
  THEN LET i == CHOOSE i \in 1..Len(s) :
                  s[i] = "/" /\ \A j \in (i + 1)..Len(s) : s[j] # "/"
       IN  SubSeq(s, i + 1, Len(s))
  ELSE s

\* the escapes that occur in the strings below, and what they decode to
Unescape(a, b) ==
  IF <<a, b>> = <<"2", "0">> THEN " "
  ELSE IF <<a, b>> = <<"2", "F">> THEN "/"
  ELSE ":"
IsEscape(a, b) == <<a, b>> \in {<<"2", "0">>, <<"2", "F">>, <<"3", "A">>}

\* a "%" that does not start an escape: decodeURIComponent throws URIError
Malformed(s) ==
  \E i \in 1..Len(s) :
    s[i] = "%" /\ (i + 2 > Len(s) \/ ~IsEscape(s[i + 1], s[i + 2]))

RECURSIVE Decode(_)
Decode(s) ==
  IF s = <<>> THEN <<>>
  ELSE IF Head(s) = "%" THEN <<Unescape(s[2], s[3])>> \o Decode(SubSeq(s, 4, Len(s)))
  ELSE <<Head(s)>> \o Decode(Tail(s))

\* decodeURIComponent
decodeURIComponent(s) ==
  [throws |-> Malformed(s), value |-> IF Malformed(s) THEN <<>> ELSE Decode(s)]

\* Array.prototype.find, given the indices of the elements that pass the
\* test: <<the first of them>>, or Null
Find(list, passing) ==
  IF passing = {} THEN Null
  ELSE <<list[CHOOSE i \in passing : \A j \in passing : i <= j]>>

DotMp4 == <<".","m","p","4">>
DotWebm == <<".","w","e","b","m">>
DotMov == <<".","m","o","v">>

\* lines 33-42 and 50-59: the video made of a URL
VideoOfUrl(u) ==
  [id |-> u, url |-> u, name |-> Decode(LastSegment(u)), type |-> "video"]

FindVideoAnyType(list, id) ==
  LET ById == {i \in 1..Len(list) : list[i].id = id}
      ByUrl == {i \in 1..Len(list) :
                  \/ list[i].url = id
                  \/ Includes(list[i].url, id)
                  \/ Includes(id, LastSegment(list[i].url))}
      ByName == {i \in 1..Len(list) : Includes(list[i].url, LastSegment(id))}
  IN  IF Find(list, ById) # Null THEN Find(list, ById)
      ELSE IF Find(list, ByUrl) # Null THEN Find(list, ByUrl)
      ELSE Find(list, ByName)

\* lines 68-89: by id, then by URL, then by file name, videos only
FindVideo(list, id) ==
  LET ById == {i \in 1..Len(list) : list[i].id = id /\ list[i].type = "video"}
      ByUrl == {i \in 1..Len(list) :
                  /\ list[i].type = "video"
                  /\ \/ list[i].url = id
                     \/ Includes(list[i].url, id)
                     \/ Includes(id, LastSegment(list[i].url))}
      ByName == {i \in 1..Len(list) :
                   list[i].type = "video" /\ Includes(list[i].url, LastSegment(id))}
  IN  IF Find(list, ById) # Null THEN Find(list, ById)
      ELSE IF Find(list, ByUrl) # Null THEN Find(list, ByUrl)
      ELSE Find(list, ByName)

\* The effect of lines 28-99 run on the initial state (video null, loading
\* true): the state it leaves, and whether it threw.
VideoEffect(id, param, ls) ==
  IF param # Null /\ param[1] # <<>>
  THEN IF decodeURIComponent(LastSegment(param[1])).throws
       THEN [video |-> Null, loading |-> TRUE, threw |-> TRUE]
       ELSE [video |-> <<VideoOfUrl(param[1])>>, loading |-> FALSE, threw |-> FALSE]
  ELSE IF decodeURIComponent(id).throws
  THEN [video |-> Null, loading |-> TRUE, threw |-> TRUE]
  ELSE LET decodedId == decodeURIComponent(id).value IN
    IF StartsWith(decodedId, Http) \/ StartsWith(decodedId, Https)
    THEN IF decodeURIComponent(LastSegment(decodedId)).throws
         THEN [video |-> Null, loading |-> TRUE, threw |-> TRUE]
         ELSE [video |-> <<VideoOfUrl(decodedId)>>, loading |-> FALSE, threw |-> FALSE]
    ELSE IF ls # Null /\ ls[1] # <<>> /\ CanParse(ls[1])
    THEN [video |-> FindVideo(Parse(ls[1]), id), loading |-> FALSE, threw |-> FALSE]
    ELSE [video |-> Null, loading |-> FALSE, threw |-> FALSE]

\* ------------------------------------------------------------- inputs
StoredV1 ==
  [id |-> <<"v","1">>, url |-> Https \o <<"h","/","a",".","m","p","4">>,
   name |-> <<"a",".","m","p","4">>, type |-> "video"]
\* a video whose URL contains the id of StoredV1
StoredV2 ==
  [id |-> <<"v","2">>, url |-> Https \o <<"h","/","v","1">>,
   name |-> <<"v","1">>, type |-> "video"]
\* a video whose URL ends with "/"
StoredV3 ==
  [id |-> <<"v","3">>, url |-> Https \o <<"h","/">>, name |-> <<"w">>,
   type |-> "video"]
StoredI1 ==
  [id |-> <<"i","1">>, url |-> Https \o <<"h","/","i",".","p","n","g">>,
   name |-> <<"i",".","p","n","g">>, type |-> "image"]
\* a record stored without a type
StoredN1 ==
  [id |-> <<"n","1">>, url |-> Https \o <<"h","/","n",".","m","o","v">>,
   name |-> <<"n",".","m","o","v">>, type |-> ""]

StoredRecords == {StoredV1, StoredV2, StoredV3, StoredI1, StoredN1}

VideoStoredTexts ==
  {Null, <<<<>>>>, <<Garbage>>}
    \cup {<<Stringify(<<a>>)>> : a \in StoredRecords}
    \cup {<<Stringify(<<a, b>>)>> : a, b \in StoredRecords}

\* params.id, as the router hands it over
VideoIds ==
  {<<"v","1">>, <<"i","1">>, <<"n","1">>, <<"z">>,
   <<"a",".","m","p","4">>, <<"q",".","m","o","v">>, <<"x","%">>,
   <<"h","t","t","p","s","%","3","A","%","2","F","%","2","F","h","%","2","F","b">>}

\* searchParams.get("url")
UrlParams ==
  {Null, <<<<>>>>,
   <<Https \o <<"h","/","a",".","m","p","4">>>>,
   <<Https \o <<"h","/","a","%","2","0","b">>>>,
   <<Https \o <<"h","/","1","0","0","%">>>>,
   <<<<"c">>>>}

\* The page as first rendered ("Loading video..."), for a route id and a url
\* parameter.
VideoPageInit ==
  /\ videoId \in VideoIds
  /\ urlParam \in UrlParams
  /\ video = Null
  /\ loading = TRUE
  /\ crashed = FALSE
  /\ videoPageMounted = FALSE

VideoPageQuiet ==
  /\ VideoPageInit
  /\ videoId = <<"z">>
  /\ urlParam = Null

\* ------------------------------------------------------------- actions
\* The effect of lines 28-99 and the render that follows; an error thrown
\* by the effect takes the page down.
VideoPageMount ==
  /\ ~videoPageMounted
  /\ videoPageMounted' = TRUE
  /\ LET r == VideoEffect(videoId, urlParam, localStorage) IN
       /\ video' = r.video
       /\ loading' = r.loading
       /\ crashed' = r.threw
  /\ UNCHANGED <<videoId, urlParam>>
  /\ UNCHANGED <<playerVars, galleryVars, homeVars, serverVars, uploadVars>>

\* lines 101-163: what the page renders
VideoPageView ==
  IF crashed THEN "error"
  ELSE IF loading THEN "Loading video..."
  ELSE IF video = Null
  THEN LET isLikelyVideoUrl ==
             \/ Includes(videoId, DotMp4)
             \/ Includes(videoId, DotWebm)
             \/ Includes(videoId, DotMov)
             \/ StartsWith(videoId, <<"h","t","t","p">>)
       IN  IF isLikelyVideoUrl /\ ~StartsWith(videoId, <<"h","t","t","p">>)
           THEN "Video not found in gallery"
           ELSE "Video not found"
  ELSE "VideoPlayer"

UIQuiet ==
  /\ UIInit
  /\ localStorage = Null

\* the components no specification below drives stay as constructed
ViewsQuiet == PlayerQuiet /\ GalleryInit /\ HomeInit /\ VideoPageQuiet

Init == ServerInit /\ UIQuiet /\ ViewsQuiet

\* The browser components and the server behind them.
InitUI ==
  /\ ServerInit
  /\ env.R2_PUBLIC_URL = "https://pub.r2.dev"
  /\ UIInit
  /\ ViewsQuiet

NextUI ==
  \/ \E f \in UIFiles : AvatarAddFile(f)
  \/ AvatarRemove
  \/ \E n \in 1..NumReq : \E pick \in [1..n -> UIFiles] : MfuAddFiles(n, pick)
  \/ MfuHookRejects
  \/ \E u \in Reqs : MfuRemove(IdOf(u))
  \/ \E u \in Reqs : Deliver(u)
  \/ \E u \in Reqs : Handle(u)
  \/ \E u \in Reqs : FetchReject(u)
  \/ \E u \in Reqs : FetchResolve(u)
  \/ Render
  \/ MountEffects
  \/ FlushEffects

SpecUI == InitUI /\ [][NextUI]_vars

\* One VideoPlayer, its media element and its parent.
InitPlayer ==
  /\ ServerInit
  /\ env.R2_PUBLIC_URL = "https://pub.r2.dev"
  /\ UIQuiet
  /\ PlayerInit
  /\ GalleryInit
  /\ HomeInit
  /\ VideoPageQuiet

NextPlayer ==
  \/ PlayerMount
  \/ \E u \in PlayerUrls : ChangeUrl(u)
  \/ handlePlayPause
  \/ ToggleMute
  \/ MediaLoaded
  \/ MediaError
  \/ PlayResolve
  \/ PlayCatch
  \/ DispatchEvent
  \/ \E d \in KnownDurations : MetadataLoaded(d)

SpecPlayer == InitPlayer /\ [][NextPlayer]_vars

\* One VideoPlayer with its progress bar, on a media element that plays.
InitProgress ==
  /\ InitPlayer
  /\ vp_url = "A"
  /\ ~thumbnail

NextProgress ==
  \/ NextPlayer
  \/ TimePasses
  \/ \E v \in SeekValues : handleSeekChange(v)

SpecProgress == InitProgress /\ [][NextProgress]_vars

\* The upload page some time after it opened, with two more uploads to come.
\* An upload made before is absent, or in the lists of both components and
\* persisted, or just appended by MultipleFileUpload and handed to
\* onUploadComplete, with the render of UploadPage still to come.
Earlier ==
  [id |-> IdOf(0), url |-> <<"https://pub.r2.dev", "/", "media", "/", "0", "-", "e">>,
   name |-> <<"e">>, type |-> "image"]

InitOverlap ==
  /\ ServerInit
  /\ env.R2_PUBLIC_URL = "https://pub.r2.dev"
  /\ cpc = [u \in Reqs |-> "idle"]
  /\ comp = [u \in Reqs |-> ""]
  /\ cfile = [u \in Reqs |-> NoFile]
  /\ outcome = [u \in Reqs |-> <<>>]
  /\ batchNext = [u \in Reqs |-> 0]
  /\ updaterLog = [u \in Reqs |-> NoLog]
  /\ avatar_uploadedUrl = Null
  /\ avatar_files = <<>>
  /\ isUploading = FALSE
  /\ uploadError = Null
  /\ mfu_updates = <<>>
  /\ uploadingIds = {}
  /\ errors = <<>>
  /\ mounted = TRUE
  /\ effectsPending = FALSE
  /\ \/ /\ files = {}
        /\ mfu_uploadedFiles = <<>>
        /\ page_uploadedFiles = <<>>
        /\ page_update = Null
        /\ localStorage = Null
     \/ /\ files = {Earlier.id}
        /\ mfu_uploadedFiles = <<Earlier>>
        /\ page_uploadedFiles = <<Earlier>>
        /\ page_update = Null
        /\ localStorage = <<Stringify(<<Earlier>>)>>
     \/ /\ files = {Earlier.id}
        /\ mfu_uploadedFiles = <<Earlier>>
        /\ page_uploadedFiles = <<>>
        /\ page_update = <<<<Earlier>>>>
        /\ localStorage = Null
  /\ ViewsQuiet

NextOverlap ==
  \/ \E n \in 1..NumReq : \E pick \in [1..n -> UIFiles] : MfuAddFiles(n, pick)
  \/ \E u \in Reqs : Deliver(u)
  \/ \E u \in Reqs : Handle(u)
  \/ \E u \in Reqs : FetchReject(u)
  \/ \E u \in Reqs : FetchResolve(u)
  \/ Render
  \/ FlushEffects

SpecOverlap == InitOverlap /\ [][NextOverlap]_vars

\* The upload page and the gallery, both open on the same local storage and
\* both showing the list it holds.
SharedLists == {<<StoredFile>>, <<StoredFile, Earlier>>}

InitShared ==
  /\ ServerInit
  /\ env.R2_PUBLIC_URL = "https://pub.r2.dev"
  /\ cpc = [u \in Reqs |-> "idle"]
  /\ comp = [u \in Reqs |-> ""]
  /\ cfile = [u \in Reqs |-> NoFile]
  /\ outcome = [u \in Reqs |-> <<>>]
  /\ batchNext = [u \in Reqs |-> 0]
  /\ updaterLog = [u \in Reqs |-> NoLog]
  /\ avatar_uploadedUrl = Null
  /\ avatar_files = <<>>
  /\ isUploading = FALSE
  /\ uploadError = Null
  /\ mfu_updates = <<>>
  /\ uploadingIds = {}
  /\ files = {}
  /\ errors = <<>>
  /\ mounted = TRUE
  /\ effectsPending = FALSE
  /\ page_update = Null
  /\ \E list \in SharedLists :
       /\ localStorage = <<Stringify(list)>>
       /\ page_uploadedFiles = list
       /\ mfu_uploadedFiles = list
       /\ gallery_uploadedFiles = list
  /\ gallery_filter = "all"
  /\ galleryMounted = TRUE
  /\ PlayerQuiet
  /\ HomeInit
  /\ VideoPageQuiet

NextShared ==
  \/ \E n \in 1..NumReq : \E pick \in [1..n -> UIFiles] : MfuAddFiles(n, pick)
  \/ \E u \in Reqs : Deliver(u)
  \/ \E u \in Reqs : Handle(u)
  \/ \E u \in Reqs : FetchReject(u)
  \/ \E u \in Reqs : FetchResolve(u)
  \/ Render
  \/ FlushEffects
  \/ \E f \in {"all", "image", "video"} : SetFilter(f)
  \/ \E list \in SharedLists : \E i \in 1..Len(list) : GalleryRemove(list[i].id)

SpecShared == InitShared /\ [][NextShared]_vars

\* The gallery and the home page, open on the same local storage.
InitGallery ==
  /\ ServerInit
  /\ env.R2_PUBLIC_URL = "https://pub.r2.dev"
  /\ UIStart
  /\ localStorage \in ViewStoredTexts
  /\ PlayerQuiet
  /\ GalleryInit
  /\ HomeInit
  /\ VideoPageQuiet

NextGallery ==
  \/ GalleryMount
  \/ \E f \in {"all", "image", "video"} : SetFilter(f)
  \/ \E i \in 1..(MaxStored + 1) : GalleryRemove(IdOf(i))
  \/ HomeMount

SpecGallery == InitGallery /\ [][NextGallery]_vars

\* The video page, opened with a route id and a url parameter on a local
\* storage.
InitVideoPage ==
  /\ ServerInit
  /\ env.R2_PUBLIC_URL = "https://pub.r2.dev"
  /\ UIStart
  /\ localStorage \in VideoStoredTexts
  /\ PlayerQuiet
  /\ GalleryInit
  /\ HomeInit
  /\ VideoPageInit

NextVideoPage == VideoPageMount

SpecVideoPage == InitVideoPage /\ [][NextVideoPage]_vars

\* Requests with arbitrary bodies, handled concurrently.
Next ==
  \/ \E r \in Reqs : Arrive(r)
  \/ \E r \in Reqs : Handle(r)
  \/ Tick

Spec == Init /\ [][Next]_vars

\* One request at a time, over every body.
NextInputs ==
  \/ ArriveAlone
  \/ Handle(1)
  \/ Tick

SpecInputs == Init /\ [][NextInputs]_vars

\* ============================================================== properties
IsVideoType(t) == StartsWith(t, VideoPrefix)
IsImageType(t) == StartsWith(t, ImagePrefix)

\* C1: every request issues the store write (PutObject) at most once, and
\* only when its form data holds a File of an image or video type whose size
\* is within the limit of its type; a request answered with status 400 has
\* issued no store write.
C1_PutOnceAfterChecks ==
  \A r \in Reqs :
    /\ sends[r] <= 1
    /\ sends[r] = 1 =>
         /\ body[r].kind = "file"
         /\ IsVideoType(body[r].type) \/ IsImageType(body[r].type)
         /\ IsVideoType(body[r].type) => body[r].size <= 500 * 1024 * 1024
         /\ ~IsVideoType(body[r].type) => body[r].size <= 10 * 1024 * 1024
    /\ response[r].status = 400 => sends[r] = 0

\* C1 witness: one request has issued its store write while another, whose
\* file is oversize, was answered 400.
C1_Witness ==
  \E r1, r2 \in Reqs :
    /\ sends[r1] = 1
    /\ response[r2].status = 400
    /\ body[r2].size > 500 * 1024 * 1024

\* C2: a success response {success: true, url, fileName, type} is returned
\* only by a request whose store write completed; a request whose store write,
\* form-data read or file read failed is answered with status 500 and the
\* single message "Failed to upload file", never with success.
C2_SuccessOnlyAfterWrite ==
  \A r \in Reqs :
    /\ response[r].success =>
         /\ stored[r]
         /\ sends[r] = 1
         /\ response[r].status = 200
         /\ caught[r] = ""
    /\ (pc[r] = "done" /\ sends[r] = 1 /\ ~stored[r]) =>
         response[r] = JsonError("Failed to upload file", 500)
    /\ caught[r] # "" =>
         /\ response[r] = JsonError("Failed to upload file", 500)
         /\ ~stored[r]

\* C2 witness: one request's store write failed and it was answered 500,
\* another one's completed and it was answered with success.
C2_Witness ==
  \E r1, r2 \in Reqs :
    /\ caught[r1] = "send"
    /\ response[r1].status = 500
    /\ response[r2].success
    /\ stored[r2]

\* C3 (as claimed): any two accepted uploads are written under distinct keys,
\* so the bucket keeps the object of every accepted upload.
C3_DistinctKeys ==
  /\ \A r1, r2 \in Reqs :
       (r1 # r2 /\ response[r1].success /\ response[r2].success) =>
         response[r1].fileName # response[r2].fileName
  /\ \A r \in Reqs : response[r].success => command[r] \in store

\* C4: once the form data is read, a video larger than 500*1024*1024 bytes and
\* an image larger than 10*1024*1024 bytes are answered 400 with the message
\* of their limit; a file exactly at its limit passes the checks (it is never
\* answered 400); no stored object is an image above 10MB or a video above
\* 500MB.
C4_SizeLimitByType ==
  /\ \A r \in Reqs :
       LET f == body[r]
           read == pc[r] \in {"arrayBuffer", "send", "done"} /\ caught[r] # "formData"
       IN  f.kind = "file" =>
             /\ (read /\ IsVideoType(f.type) /\ f.size > 500 * 1024 * 1024) =>
                  response[r] = JsonError("File size exceeds 500MB limit", 400)
             /\ (read /\ IsImageType(f.type) /\ f.size > 10 * 1024 * 1024) =>
                  response[r] = JsonError("File size exceeds 10MB limit", 400)
             /\ (read /\ IsVideoType(f.type) /\ f.size = 500 * 1024 * 1024) =>
                  response[r].status # 400 /\ pc[r] # "formData"
             /\ (read /\ IsImageType(f.type) /\ f.size = 10 * 1024 * 1024) =>
                  response[r].status # 400 /\ pc[r] # "formData"
  /\ \A o \in store :
       /\ IsVideoType(body[o.Body].type) => body[o.Body].size <= 500 * 1024 * 1024
       /\ IsImageType(body[o.Body].type) => body[o.Body].size <= 10 * 1024 * 1024

\* C4 witness: a video of exactly 500*1024*1024 bytes is in the bucket.
C4_Witness ==
  \E o \in store :
    /\ IsVideoType(body[o.Body].type)
    /\ body[o.Body].size = 500 * 1024 * 1024
    /\ response[o.Body].success

\* C5 (as claimed): once the form data is read, every request whose "file"
\* entry has a type starting with neither "image/" nor "video/" is answered
\* 400 "Unsupported file type. Only images and videos are allowed.", every
\* request without a File is answered 400 (an absent entry with "No file
\* provided"), and only images and videos are stored.
C5_RejectsNonMedia ==
  /\ \A r \in Reqs :
       (pc[r] = "done" /\ caught[r] # "formData") =>
         /\ (body[r].kind = "file" /\ ~IsVideoType(body[r].type)
               /\ ~IsImageType(body[r].type)) =>
              response[r] = JsonError(
                "Unsupported file type. Only images and videos are allowed.", 400)
         /\ body[r].kind = "none" =>
              response[r] = JsonError("No file provided", 400)
         /\ body[r].kind # "file" => response[r].status = 400
  /\ \A o \in store :
       IsVideoType(body[o.Body].type) \/ IsImageType(body[o.Body].type)

\* C9: the url of a success response is base/bucket/fileName, base being
\* R2_PUBLIC_URL when it is set and non-empty and AWS_S3_API_URL otherwise;
\* fileName is the fileName field of the response and the Key under which the
\* request's object is in the bucket.
C9_PublicUrl ==
  \A r \in Reqs :
    response[r].success =>
      LET base == IF env.R2_PUBLIC_URL # Undefined /\ env.R2_PUBLIC_URL # ""
                  THEN env.R2_PUBLIC_URL ELSE env.AWS_S3_API_URL
      IN  /\ response[r].url =
               <<base, "/", env.AWS_S3_BUCKET_NAME, "/">> \o response[r].fileName
          /\ response[r].fileName = command[r].Key
          /\ \E o \in store : o.Key = response[r].fileName /\ o.Body = r

\* C9 witness: a success response built with R2_PUBLIC_URL set.
C9_Witness ==
  \E r \in Reqs :
    /\ response[r].success
    /\ env.R2_PUBLIC_URL = "https://pub.r2.dev"
    /\ response[r].url[1] = "https://pub.r2.dev"

\* the characters of [a-zA-Z0-9.-]
KeptChars == Letters \cup Digits \cup {".", "-"}

\* index of the last "." of a name, 0 when it has none
LastDot(name) ==
  IF \E i \in 1..Len(name) : name[i] = "."
  THEN CHOOSE i \in 1..Len(name) :
         name[i] = "." /\ \A j \in (i + 1)..Len(name) : name[j] # "."
  ELSE 0

\* the file extension: what follows the last "."
Extension(name) ==
  IF LastDot(name) = 0 THEN <<>> ELSE SubSeq(name, LastDot(name) + 1, Len(name))

\* the object key is the timestamp, "-", and a part of the length of the
\* name, made of [a-zA-Z0-9._-], that keeps every character of [a-zA-Z0-9.-]
\* in place and has "_" in the place of every other one
KeyIsStampAndSanitizedName(r) ==
  LET key == command[r].Key
      name == body[r].name
      d == Len(Decimal(stamp[r]))
      part == SubSeq(key, d + 2, Len(key))
  IN  /\ Len(key) = d + 1 + Len(name)
      /\ SubSeq(key, 1, d) = Decimal(stamp[r])
      /\ stamp[r] <= now
      /\ key[d + 1] = "-"
      /\ Len(part) = Len(name)
      /\ \A i \in 1..Len(name) :
           /\ part[i] \in KeptChars \cup {"_"}
           /\ name[i] \in KeptChars => part[i] = name[i]
           /\ name[i] \notin KeptChars => part[i] = "_"

SanitizedPart(r) ==
  SubSeq(command[r].Key, Len(Decimal(stamp[r])) + 2, Len(command[r].Key))

FailureShown(u) ==
  IF comp[u] = "avatar" THEN uploadError = outcome[u]
  ELSE Len(errors) > 0 /\ <<errors[1]>> = outcome[u]

\* C6 (as claimed): whenever an upload started from the UI ends in failure
\* (non-OK response or rejected fetch), the component that started it then
\* shows the failure's message, in AvatarUpload and in MultipleFileUpload.
C6_FailureShown ==
  [][\A u \in Reqs :
       (cpc[u] # "done" /\ cpc'[u] = "done" /\ outcome'[u] # <<"ok">>)
         => FailureShown(u)']_vars

\* C6, the half that holds: a failed upload of AvatarUpload ends with its
\* message in uploadError.
C6_AvatarFailureShown ==
  [][\A u \in Reqs :
       (comp[u] = "avatar" /\ cpc[u] # "done" /\ cpc'[u] = "done"
          /\ outcome'[u] # <<"ok">>)
         => (uploadError' = outcome'[u] /\ uploadError' # Null)]_vars

\* C7: when the persistence effect of the upload page has run, local storage
\* holds the JSON of the page's uploaded-file list (which parses back to that
\* list) when the list is non-empty, and no value when it is empty.
C7_PersistedAfterEffect ==
  [][(effectsPending /\ ~effectsPending') =>
       IF page_uploadedFiles' = <<>>
       THEN localStorage' = Null
       ELSE /\ localStorage' = <<Stringify(page_uploadedFiles')>>
            /\ CanParse(localStorage'[1])
            /\ Parse(localStorage'[1]) = page_uploadedFiles']_vars

\* C7 witness: an upload was appended to a stored list and then removed, the
\* effects have run, and local storage holds the JSON of the remaining list.
C7_Witness ==
  \E u \in Reqs :
    /\ updaterLog[u].ran
    /\ updaterLog[u].prev = <<StoredFile>>
    /\ IdOf(u) \notin files
    /\ page_uploadedFiles = <<StoredFile>>
    /\ page_update = Null
    /\ mounted /\ ~effectsPending
    /\ localStorage = <<Stringify(<<StoredFile>>)>>

\* C8: the updater of a successful MultipleFileUpload upload returns the list
\* it received with exactly one record appended at the end, {id of the added
\* file, url of the response, name of the file, type "video" when the MIME
\* type starts with "video/" and "image" otherwise}, and calls
\* onUploadComplete with that list; only successful uploads queue an updater,
\* and each queues one.
C8_AppendsOneRecord ==
  \A u \in Reqs :
    LET rec == [id |-> IdOf(u), url |-> response[u].url, name |-> cfile[u].name,
                type |-> IF IsVideoType(cfile[u].type) THEN "video" ELSE "image"]
        queued == {k \in 1..Len(mfu_updates) :
                     mfu_updates[k].kind = "append" /\ mfu_updates[k].by = u}
    IN  /\ updaterLog[u].ran =>
             /\ updaterLog[u].updated = Append(updaterLog[u].prev, rec)
             /\ updaterLog[u].notified = <<updaterLog[u].updated>>
        /\ (comp[u] = "multi" /\ outcome[u] = <<"ok">>) =>
             /\ response[u].success
             /\ Cardinality(queued) = IF updaterLog[u].ran THEN 0 ELSE 1
             /\ \A k \in queued : mfu_updates[k].rec = rec
        /\ ~(comp[u] = "multi" /\ outcome[u] = <<"ok">>) =>
             ~updaterLog[u].ran /\ queued = {}

\* C8 witness: the updater of a successful video upload ran on a non-empty
\* list.
C8_Witness ==
  \E u \in Reqs :
    /\ updaterLog[u].ran
    /\ Len(updaterLog[u].prev) >= 1
    /\ cfile[u].type = VideoMp4
    /\ updaterLog[u].updated[Len(updaterLog[u].updated)].type = "video"

\* C11: every PutObject command issued, and every object in the bucket, has
\* as ContentType the MIME type declared by the uploaded file; that type is
\* non-empty and starts with "image/" or "video/", so the fallback branch of
\* `file.type || ...` is never the one taken.
C11_ContentTypeIsDeclared ==
  /\ \A r \in Reqs :
       sends[r] = 1 =>
         /\ command[r].ContentType = body[r].type
         /\ body[r].type # <<>>
         /\ IsVideoType(command[r].ContentType) \/ IsImageType(command[r].ContentType)
  /\ \A o \in store :
       /\ o.ContentType = body[o.Body].type
       /\ IsVideoType(o.ContentType) \/ IsImageType(o.ContentType)

\* C11 witness: an image/png upload answered with success, its object in the
\* bucket with ContentType image/png.
C11_Witness ==
  \E o \in store :
    /\ o.ContentType = ImagePng
    /\ body[o.Body].type = ImagePng
    /\ response[o.Body].success
    /\ response[o.Body].type = "image"

\* ------------------------------------------------------------ VideoPlayer
AnyPlayControl == ThumbnailButton \/ ControlsBar \/ PlayOverlay

\* C12 (as claimed): a player created with autoPlay starts muted and playing,
\* and its mount and every change of its url to a video source issue play();
\* a player created without autoPlay starts unmuted and not playing, and
\* every play() it issues comes from a click on a play control.
C12_AutoPlayOnMountAndUrlChange ==
  /\ ~playerMounted => (isMuted = autoPlay /\ isPlaying = autoPlay)
  /\ (autoPlay /\ lastStep \in {"mount", "url"} /\ vp_url # "") =>
       lastCall = <<"play">>
  /\ ~autoPlay =>
       /\ lastCall = <<"play">> => lastStep = "click"
       /\ \A p \in promises : p.by = "click"

\* C12, the part that holds: as above, with play() issued on mount and on
\* the url changes that happen while no error is shown.
C12_AutoPlayUnlessErrorShown ==
  /\ ~playerMounted => (isMuted = autoPlay /\ isPlaying = autoPlay)
  /\ (autoPlay /\ lastStep = "mount" /\ vp_url # "") => lastCall = <<"play">>
  /\ (autoPlay /\ lastStep = "url" /\ vp_url # "" /\ listening) =>
       lastCall = <<"play">>
  /\ ~autoPlay =>
       /\ lastCall = <<"play">> => lastStep = "click"
       /\ \A p \in promises : p.by = "click"

\* C13: when an error event of the rendered media element is dispatched, an
\* error message is set, isPlaying is false and the error view replaces the
\* video; a change of the url clears the error and isReady, and with a
\* non-empty url the video element is rendered again and loads the new
\* source.
C13_ErrorViewAndRecovery ==
  [][/\ (DispatchEvent /\ Head(events) = "error" /\ VideoMounted) =>
          /\ vp_error' # Null
          /\ ~isPlaying'
          /\ ErrorView'
          /\ ~VideoMounted'
     /\ (\E u \in PlayerUrls : ChangeUrl(u)) =>
          /\ vp_error' = Null
          /\ ~isReady'
          /\ vp_url' # "" => (VideoMounted' /\ el_load' = "loading")]_vars

\* C13 witness: a player that was playing shows the error view after the
\* error event of its element.
C13_Witness ==
  /\ autoPlay
  /\ lastStep = "event"
  /\ ErrorView
  /\ vp_error = <<FailedToLoad>>
  /\ ~isPlaying
  /\ el_load = "none"

\* C14 (as claimed): in a player created with autoPlay, the click on a play
\* control that follows the catch of the rejected automatic play() issues
\* play() on the media element.
C14_ClickAfterFailedAutoplayPlays ==
  [][(handlePlayPause /\ autoPlay /\ lastStep = "catch") =>
       lastCall' = <<"play">>]_vars

\* C15 (as claimed): while the error "Unable to play video. Please try
\* clicking play again." is set, a play control is rendered.
C15_PlayControlAfterRejectedPlay ==
  (vp_url # "" /\ vp_error = <<UnableToPlay>>) => AnyPlayControl

\* ----------------------------------------------------- failed uploads
\* the ids of the records of a list
Ids(list) == {list[i].id : i \in 1..Len(list)}

\* the ids of the records local storage holds
StoredIds ==
  IF localStorage # Null /\ CanParse(localStorage[1])
  THEN Ids(Parse(localStorage[1]))
  ELSE {}

\* C16: the step in which an upload of MultipleFileUpload ends in failure
\* changes neither the component's list, nor its queued updates, nor the
\* page's list, nor local storage; the updater of a failed upload never runs
\* (onUploadComplete is not called for it), and no list, queued update or
\* stored text holds a record for the failed file.
C16_FailureLeavesListAlone ==
  [][\A u \in Reqs :
       /\ (comp[u] = "multi" /\ cpc[u] # "done" /\ cpc'[u] = "done"
             /\ outcome'[u] # <<"ok">>) =>
            UNCHANGED <<mfu_uploadedFiles, mfu_updates, page_uploadedFiles,
                        page_update, localStorage>>
       /\ (comp'[u] = "multi" /\ outcome'[u] \notin {<<>>, <<"ok">>}) =>
            /\ ~updaterLog'[u].ran
            /\ IdOf(u) \notin Ids(mfu_uploadedFiles') \cup Ids(page_uploadedFiles')
            /\ page_update' # Null => IdOf(u) \notin Ids(page_update'[1])
            /\ \A k \in 1..Len(mfu_updates') :
                 /\ mfu_updates'[k].by # u
                 /\ IdOf(u) \notin Ids(mfu_updates'[k].list)
            /\ IdOf(u) \notin StoredIds']_vars

\* C16 witness: one upload of MultipleFileUpload was refused by the server
\* for its size, another one's record is in the page's list and in local
\* storage.
C16_Witness ==
  \E u, v \in Reqs :
    /\ comp[u] = "multi"
    /\ cpc[u] = "done"
    /\ outcome[u] = <<"File size exceeds 10MB limit">>
    /\ updaterLog[v].ran
    /\ IdOf(v) \in Ids(page_uploadedFiles)
    /\ IdOf(v) \in StoredIds

\* ------------------------------------------------------ GalleryPage, Home
\* C17: handleRemove(id) of the gallery leaves in the list exactly the
\* records whose id differs from id, in their order; afterwards local storage
\* holds the JSON of that list (it parses back to it), or no value when the
\* list is empty. On every list the gallery holds, filtering out an id that
\* is not in it gives the same list.
C17_RemoveExactlyThatId ==
  [][\A i \in 1..(MaxStored + 1) :
       /\ GalleryRemove(IdOf(i)) =>
            LET Keeps(f) == f.id # IdOf(i) IN
              /\ gallery_uploadedFiles' = SelectSeq(gallery_uploadedFiles, Keeps)
              /\ IF gallery_uploadedFiles' = <<>>
                 THEN localStorage' = Null
                 ELSE /\ localStorage' = <<Stringify(gallery_uploadedFiles')>>
                      /\ Parse(localStorage'[1]) = gallery_uploadedFiles'
       /\ IdOf(i) \notin Ids(gallery_uploadedFiles) =>
            Without(gallery_uploadedFiles, IdOf(i)) = gallery_uploadedFiles]_vars

\* C17 witness: the gallery removed a video record under the video filter;
\* the image record that remains is the list and is what local storage
\* holds.
C17_Witness ==
  /\ galleryMounted
  /\ gallery_filter = "video"
  /\ gallery_uploadedFiles = <<Upload(2)>>
  /\ localStorage = <<Stringify(<<Upload(2)>>)>>

\* the position of a record in the order of upload
UploadNumber(f) == CHOOSE i \in 1..(MaxStored + 1) : IdOf(i) = f.id

\* C20 (as claimed): the home page's "Recent Uploads" shows at most six
\* records, and when the list has more than six, every record shown was
\* uploaded after every record not shown.
C20_RecentAreLatest ==
  homeMounted =>
    /\ Len(RecentUploads) <= 6
    /\ Len(home_uploadedFiles) > 6 =>
         \A i \in 1..Len(RecentUploads) :
           \A j \in 1..Len(home_uploadedFiles) :
             (\A k \in 1..Len(RecentUploads) : RecentUploads[k] # home_uploadedFiles[j])
               => UploadNumber(RecentUploads[i]) > UploadNumber(home_uploadedFiles[j])

\* C20, the part that holds: at most six records are shown, and they are the
\* first six of the stored list, the oldest uploads.
C20_ShowsFirstSix ==
  homeMounted =>
    /\ Len(RecentUploads) <= 6
    /\ \A i \in 1..Len(RecentUploads) : RecentUploads[i] = home_uploadedFiles[i]
    /\ Len(home_uploadedFiles) >= 6 => Len(RecentUploads) = 6

\* ---------------------------------------------------------- VideoViewPage
UrlParamGiven == urlParam # Null /\ urlParam[1] # <<>>

RouteIdIsUrl ==
  /\ ~decodeURIComponent(videoId).throws
  /\ \/ StartsWith(decodeURIComponent(videoId).value, Http)
     \/ StartsWith(decodeURIComponent(videoId).value, Https)

\* C18 (as claimed): once the effect of the video page has run, a non-empty
\* url parameter is the video shown, {id and url the parameter, type "video",
\* name the decoded last path segment of the parameter}, whatever the route
\* id and local storage are; and with a url parameter, or a route id that
\* decodes to an http(s) URL, the outcome is the one an empty local storage
\* gives.
C18_UrlParamUsedDirectly ==
  videoPageMounted =>
    /\ UrlParamGiven =>
         /\ video = <<[id |-> urlParam[1], url |-> urlParam[1],
                       name |-> decodeURIComponent(LastSegment(urlParam[1])).value,
                       type |-> "video"]>>
         /\ VideoPageView = "VideoPlayer"
    /\ (UrlParamGiven \/ RouteIdIsUrl) =>
         LET r == VideoEffect(videoId, urlParam, Null)
         IN  video = r.video /\ loading = r.loading /\ crashed = r.threw

\* C18, the part that holds: the same for the url parameters whose last
\* path segment decodeURIComponent accepts; for the others the effect throws
\* and no video is shown.
C18_UrlParamUsedWhenDecodable ==
  videoPageMounted =>
    /\ (UrlParamGiven /\ ~Malformed(LastSegment(urlParam[1]))) =>
         /\ video = <<[id |-> urlParam[1], url |-> urlParam[1],
                       name |-> decodeURIComponent(LastSegment(urlParam[1])).value,
                       type |-> "video"]>>
         /\ VideoPageView = "VideoPlayer"
    /\ (UrlParamGiven /\ Malformed(LastSegment(urlParam[1]))) =>
         crashed /\ video = Null
    /\ (UrlParamGiven \/ RouteIdIsUrl) =>
         LET r == VideoEffect(videoId, urlParam, Null)
         IN  video = r.video /\ loading = r.loading /\ crashed = r.threw

\* the effect reached the lookup in the stored list
LookupRan ==
  /\ videoPageMounted
  /\ ~crashed
  /\ ~UrlParamGiven
  /\ ~RouteIdIsUrl

\* a stored video that the route id names: by id, by URL or by file name
MatchesRouteId(f) ==
  /\ f.type = "video"
  /\ \/ f.id = videoId
     \/ f.url = videoId
     \/ Includes(f.url, videoId)
     \/ Includes(videoId, LastSegment(f.url))
     \/ Includes(f.url, LastSegment(videoId))

\* After a lookup: the first stored video whose id is the route id is the one
\* shown, whatever else matches; what is shown is a stored record of type
\* "video"; loading is false; a video is shown exactly when some stored video
\* matches.
LookupShowsVideosOnly ==
  LET list == LoadStored(localStorage) IN
    /\ \A i \in 1..Len(list) :
         (/\ list[i].type = "video" /\ list[i].id = videoId
          /\ \A j \in 1..(i - 1) : ~(list[j].type = "video" /\ list[j].id = videoId))
           => video = <<list[i]>>
    /\ video # Null =>
         /\ \E i \in 1..Len(list) : video = <<list[i]>>
         /\ video[1].type = "video"
         /\ VideoPageView = "VideoPlayer"
    /\ ~loading
    /\ video = Null <=> ~\E i \in 1..Len(list) : MatchesRouteId(list[i])

DurationKnown == el_duration # NaN /\ el_duration # 0

\* C21: played stays within [0, 1] in every reachable state; handleTimeUpdate
\* changes it only when the duration is greater than 0, to currentTime /
\* duration; handleSeekChange sets it to the seek value, and moves the
\* currentTime of the element only when its duration is known and not zero,
\* to seekValue * duration, and leaves it unchanged otherwise.
C21_PlayedWithinUnit ==
  /\ [](played \in 0..PlayedScale)
  /\ [][/\ (DispatchEvent /\ Head(events) = "timeupdate") =>
            /\ played' # played =>
                 /\ el_duration # NaN /\ el_duration > 0
                 /\ played' = IF el_duration = Infinity THEN 0
                              ELSE (el_currentTime * PlayedScale) \div el_duration
            /\ ~(el_duration # NaN /\ el_duration > 0) => played' = played
        /\ \A v \in SeekValues : handleSeekChange(v) =>
            /\ played' = v
            /\ el_currentTime' # el_currentTime =>
                 /\ DurationKnown
                 /\ el_currentTime' * PlayedScale = v * el_duration
            /\ ~DurationKnown => el_currentTime' = el_currentTime]_vars

\* C21 witness: a seek to the middle of the bar has moved the element to the
\* middle of its media, and a time update has moved the bar on from there.
C21_Witness ==
  /\ lastStep = "event"
  /\ el_duration = MediaLength
  /\ el_currentTime = 3
  /\ played = 6
  /\ ~el_paused

\* ---------------------------------------------------- overlapping uploads
\* every started upload has completed and every queued update, render and
\* effect has run
AllSettled ==
  /\ mounted
  /\ ~effectsPending
  /\ mfu_updates = <<>>
  /\ page_update = Null
  /\ \A u \in Reqs : cpc[u] \in {"idle", "done"}

\* the uploads of MultipleFileUpload that succeeded and were not removed
Succeeded == {u \in Reqs : comp[u] = "multi" /\ outcome[u] = <<"ok">> /\ IdOf(u) \in files}

\* C22 (as claimed): once all uploads have completed and the updates have
\* settled, the uploaded-file list of the upload page and local storage hold
\* a record for every upload that succeeded.
C22_NoUploadLost ==
  AllSettled =>
    \A u \in Succeeded :
      /\ IdOf(u) \in Ids(page_uploadedFiles)
      /\ IdOf(u) \in StoredIds

\* ------------------------------------------- two pages, one local storage
\* the ids of the records both pages opened with
OpenedWith == UNION {Ids(list) : list \in SharedLists}

\* C23 (as claimed): with the gallery and the upload page open on the same
\* local storage, a record removed through the gallery's handleRemove is not
\* in local storage after any later write of the upload page, and a gallery
\* removal takes exactly the removed record out of local storage, so that a
\* record the upload page added stays.
C23_PagesShareStorage ==
  /\ [](\A id \in OpenedWith :
          id \notin Ids(gallery_uploadedFiles) => id \notin StoredIds)
  /\ [][\A id \in OpenedWith :
          GalleryRemove(id) => StoredIds' = StoredIds \ {id}]_vars

\* ------------------------------------------------ mounting the upload page
\* local storage holds a valid, non-empty list
HoldsList(ls) == ls # Null /\ CanParse(ls[1]) /\ Len(Parse(ls[1])) > 0

\* the page has mounted, its updates and effects have run, and the user has
\* done nothing yet
MountedUntouched ==
  /\ mounted /\ ~effectsPending
  /\ page_update = Null /\ mfu_updates = <<>>
  /\ \A u \in Reqs : cpc[u] = "idle"
  /\ files = {} /\ errors = <<>>

\* C24 (as claimed): when local storage holds a valid non-empty list, the
\* effects the upload page runs at mount leave it in local storage, and once
\* the page has mounted its list is the stored list.
C24_MountKeepsStored ==
  /\ [][(MountEffects /\ HoldsList(localStorage)) =>
          localStorage' = localStorage]_vars
  /\ [](MountedUntouched /\ HoldsList(localStorage) =>
          page_uploadedFiles = Parse(localStorage[1]))

\* C24, the part that holds: once the page has mounted on a valid non-empty
\* list and its updates and effects have run, its list and local storage
\* both hold that list again.
C24_StoredListRestored ==
  MountedUntouched =>
    \/ page_uploadedFiles = <<>> /\ localStorage = Null
    \/ /\ page_uploadedFiles = <<StoredFile>>
       /\ localStorage = <<Stringify(<<StoredFile>>)>>

\* --------------------------------------------------- reaching a play control
\* C25 (as claimed): whenever the player has a url and no error and its media
\* element is not playing, the thumbnail play button, the play/pause button
\* of the controls bar or the paused play overlay is rendered.
C25_PlayControlWhenNotPlaying ==
  (playerMounted /\ vp_url # "" /\ vp_error = Null /\ el_paused) => AnyPlayControl

\* C25, the part that holds: as above for a player that was given a
\* thumbnail.
C25_PlayControlWithThumbnail ==
  (playerMounted /\ vp_url # "" /\ vp_error = Null /\ el_paused /\ thumbnail) =>
    AnyPlayControl

\* ---------------------------------------------- isPlaying and the element
\* C26 (as claimed): whenever the video element is rendered and no media
\* event is waiting to be dispatched, isPlaying is true exactly when the
\* element is playing.
C26_IsPlayingMatchesElement ==
  (playerMounted /\ VideoMounted /\ events = <<>>) => (isPlaying <=> ~el_paused)

\* ------------------------------------------------------ one batch of files
\* the request of upload u has been sent
Sent(u) == cpc[u] \in {"fetch", "done"}

\* C27: the files of one batch are uploaded one at a time in the order they
\* were added: the request of a file is not sent before the upload of the
\* file before it in the batch has completed, and when an upload of the
\* batch ends, in success or in failure, the request of the next file of
\* the batch is sent.
C27_BatchInOrder ==
  /\ [](\A u \in Reqs :
         batchNext[u] # 0 =>
           /\ batchNext[u] = u + 1
           /\ comp[batchNext[u]] = "multi"
           /\ (Sent(batchNext[u]) \/ pc[batchNext[u]] # "idle") =>
                (cpc[u] = "done" /\ outcome[u] # <<>>))
  /\ [][\A u \in Reqs :
          (comp[u] = "multi" /\ cpc[u] = "fetch" /\ cpc'[u] = "done"
             /\ batchNext[u] # 0) =>
            /\ cpc[batchNext[u]] = "queued"
            /\ cpc'[batchNext[u]] = "fetch"]_vars

\* C27 witness: the first file of a batch failed and the second one was
\* uploaded after it.
C27_Witness ==
  \E u \in Reqs :
    /\ batchNext[u] # 0
    /\ outcome[u] # <<>> /\ outcome[u] # <<"ok">>
    /\ outcome[batchNext[u]] = <<"ok">>
    /\ stored[batchNext[u]]

\* ------------------------------------------------------------ uploadingIds
\* the uploads of MultipleFileUpload whose uploadFile is running
InFlight == {u \in Reqs : comp[u] = "multi" /\ cpc[u] = "fetch"}

\* C28: uploadingIds holds exactly the ids of the files whose uploadFile is
\* running, whether uploads ended in success or in failure, so it is empty
\* once every started upload has completed; handleRemove is never called for
\* a file whose id is in uploadingIds, its Remove button being disabled.
C28_UploadingIdsAreInFlight ==
  /\ [](uploadingIds = {IdOf(u) : u \in InFlight})
  /\ []((\A u \in Reqs : cpc[u] \in {"idle", "done"}) => uploadingIds = {})
  /\ [][\A u \in Reqs :
          MfuRemove(IdOf(u)) => (IdOf(u) \notin uploadingIds /\ u \notin InFlight)]_vars

\* C28 witness: the first upload of a batch has failed and its id is out of
\* uploadingIds, the second is running and its id is in.
C28_Witness ==
  \E u \in Reqs :
    /\ comp[u] = "multi"
    /\ outcome[u] # <<>> /\ outcome[u] # <<"ok">>
    /\ IdOf(u) \notin uploadingIds
    /\ batchNext[u] # 0
    /\ cpc[batchNext[u]] = "fetch"
    /\ IdOf(batchNext[u]) \in uploadingIds


====
